---------------------------- MODULE Spec2Model ----------------------------
(***************************************************************************)
(* The front-end of tinyhcc as state machines.                             *)
(*                                                                         *)
(* tokenize() of src/src/lexer.c: one step is one iteration of its main    *)
(* loop (one case of its switch), or the code that follows the loop.       *)
(* Source bytes are their ASCII codes; the cursor i is 0-based as in C.    *)
(*                                                                         *)
(* parse() of src/src/parser.c: one step is one iteration of its statement *)
(* loop, the parse functions being recursive operators over the token      *)
(* array; freeNode() is one step that walks the returned tree.             *)
(*                                                                         *)
(* main() and parseArgs() of src/src/cli.c: one step is one iteration of   *)
(* the loop over argv.                                                     *)
(***************************************************************************)
EXTENDS Integers, Sequences, FiniteSets, TLC

(***************************************************************************)
(* Bounds of the model.                                                    *)
(***************************************************************************)
MaxLen == 4
MaxOpLen == 3
MaxAllocLen == 3
MaxTokens == 3
MaxPostfix == 4
MaxElseIfs == 2
MaxArguments == 3
MaxStatements == 3
MaxArgs == 3

(***************************************************************************)
(* ASCII codes of the bytes the lexer tests for.                           *)
(***************************************************************************)
CH == [ nul |-> 0, tab |-> 9, lf |-> 10, vt |-> 11, ff |-> 12, cr |-> 13,
        bel |-> 7, bs |-> 8, space |-> 32,
        bang |-> 33, dquote |-> 34, hash |-> 35, percent |-> 37, amp |-> 38,
        quote |-> 39, lparen |-> 40, rparen |-> 41, star |-> 42, plus |-> 43,
        comma |-> 44, minus |-> 45, dot |-> 46, slash |-> 47,
        colon |-> 58, semicolon |-> 59, lt |-> 60, eq |-> 61, gt |-> 62,
        lbracket |-> 91, backslash |-> 92, rbracket |-> 93, caret |-> 94,
        underscore |-> 95, backtick |-> 96,
        lbrace |-> 123, pipe |-> 124, rbrace |-> 125, tilde |-> 126,
        a |-> 97, b |-> 98, f |-> 102, n |-> 110, r |-> 114, t |-> 116,
        v |-> 118, x |-> 120, d0 |-> 48, d1 |-> 49, d7 |-> 55, d8 |-> 56 ]

UCHAR_MAX == 255

isdigit(c) == c \in 48..57
isalpha(c) == c \in 65..90 \/ c \in 97..122
isalnum(c) == isalpha(c) \/ isdigit(c)
isxdigit(c) == isdigit(c) \/ c \in 65..70 \/ c \in 97..102

escape_sequences ==
    [ c \in {CH.n, CH.t, CH.r, CH.v, CH.b, CH.f, CH.a,
             CH.backslash, CH.dquote, CH.quote} |->
        CASE c = CH.n -> CH.lf
          [] c = CH.t -> CH.tab
          [] c = CH.r -> CH.cr
          [] c = CH.v -> CH.vt
          [] c = CH.b -> CH.bs
          [] c = CH.f -> CH.ff
          [] c = CH.a -> CH.bel
          [] OTHER -> c ]

keywords ==
    { <<105, 102>>,
      <<101, 108, 115, 101>>,
      <<119, 104, 105, 108, 101>>,
      <<102, 111, 114>>,
      <<115, 119, 105, 116, 99, 104>>,
      <<99, 97, 115, 101>>,
      <<97, 115, 109>>,
      <<116, 114, 121>>,
      <<99, 97, 116, 99, 104>>,
      <<116, 104, 114, 111, 119>>,
      <<98, 114, 101, 97, 107>>,
      <<103, 111, 116, 111>>,
      <<99, 108, 97, 115, 115>>,
      <<117, 110, 105, 111, 110>>,
      <<110, 111, 95, 119, 97, 114, 110>>,
      <<114, 101, 103>>,
      <<110, 111, 114, 101, 103>>,
      <<115, 116, 97, 116, 105, 99>>,
      <<101, 120, 116, 101, 114, 110>> }

(***************************************************************************)
(* The inputs: every byte string up to a bounded length over an alphabet.  *)
(* Alphabet holds the bytes of whitespace, comments, literals and escapes; *)
(* OpAlphabet holds every byte that starts or continues an operator.       *)
(***************************************************************************)
Alphabet ==
    { CH.space, CH.lf, CH.slash, CH.star, CH.semicolon, CH.dot, CH.d0, CH.d8,
      CH.x, CH.n, CH.dquote, CH.quote, CH.backslash }

OpAlphabet ==
    { CH.plus, CH.minus, CH.star, CH.slash, CH.percent, CH.lt, CH.gt,
      CH.caret, CH.amp, CH.pipe, CH.eq, CH.bang, CH.dot,
      CH.semicolon, CH.tab, CH.lf, CH.d1, CH.a, CH.quote, CH.dquote,
      CH.hash }

Strs(A, n) == UNION { [1..k -> A] : k \in 0..n }

VARIABLES
    source,   \* the bytes before the terminating NUL
    i,        \* cursor of tokenize, 0-based
    line,     \* line counter of tokenize
    col,      \* column counter of tokenize
    tokens,   \* the token array, tokens[1..nTokens]
    status,   \* "lexing" | "done" | "failed" | "noreturn" | "overrun"
    ret,      \* what the caller receives: "none" | "tokens" | "NULL" | "garbage"
    diag,     \* what was written to stderr, in order
    oom,      \* whether malloc, calloc and realloc can return NULL in this run
    heap,     \* one entry per allocation request of tokenize, in order:
              \* "NULL" (the request failed) | "live" | "freed" | "freed twice"
    store,    \* the pointers tokenize holds: tokens (the array), sTokens
              \* (its capacity) and values (tokens[k].value, k < nTokens)
    ctx,      \* the ParserContext of parse: tokens, current, index
    program,  \* program->statements of parse
    AST,      \* what parse has returned, NoNode before
    pstatus,  \* "idle" | "parsing" | "returned" | "diverged" | "freed"
              \* | "crashed"
    released, \* the blocks freeNode has released
    wild,     \* the calls of free on a pointer that was never set
    argv,     \* the arguments of the driver behind argv[0]
    argi,     \* i of parseArgs: argv[argi] is examined next
    args,     \* the CliArgs of parseArgs
    cstatus,  \* "idle" | "started" | "scanning" | "returned" | "exited"
              \* | "crashed"
    exitcode, \* the exit status of the driver, NoExit while it runs
    cerr      \* what the driver has written to stderr

lexvars == <<source, i, line, col, tokens, status, ret, diag, oom, heap, store>>

pvars == <<ctx, program, AST, pstatus, released, wild>>

clivars == <<argv, argi, args, cstatus, exitcode, cerr>>

vars == <<lexvars, pvars, clivars>>

(* A field of CliArgs that has not been assigned: args is a local of       *)
(* parseArgs without an initializer.                                       *)
Indeterminate == [ is |-> "indeterminate" ]

(* The exit status of a driver that has not ended.                         *)
NoExit == -1

(* The state of the driver when main is not run.                           *)
CliIdle ==
    /\ argv = << >>
    /\ argi = 0
    /\ args = [ outFile |-> Indeterminate, inFiles |-> Indeterminate,
                nInFiles |-> 0, showHelp |-> Indeterminate ]
    /\ cstatus = "idle"
    /\ exitcode = NoExit
    /\ cerr = << >>

(* source[k] of the C code: the byte at 0-based index k; index Len(source) *)
(* holds the terminating NUL.                                              *)
At(k) == IF k < Len(source) THEN source[k + 1] ELSE CH.nul

Token(type, hasValue, value, index, ln, cl, len) ==
    [ type |-> type, hasValue |-> hasValue, value |-> value,
      index |-> index, line |-> ln, col |-> cl, len |-> len ]

Msg(text, ln, cl) == [ msg |-> text, line |-> ln, col |-> cl ]

(* The null pointer to a block of the heap.                                *)
NULL == 0

(***************************************************************************)
(* The parser: parse() of src/src/parser.c.  The functions of the          *)
(* recursive descent are operators from a ParserContext to what the        *)
(* function returns and the context it leaves; one step of the machine is  *)
(* one iteration of the loop of parse.                                     *)
(***************************************************************************)
(* A null Node pointer.                                                    *)
NoNode == [ type |-> "NULL" ]

(* ctx->tokens[k]; the array ends with its TT_EOF token.                   *)
TokenAt(toks, k) ==
    IF k < Len(toks) THEN toks[k + 1]
    ELSE Token("beyond the array", FALSE, << >>, 0, 0, 0, 0)

(* An advance that passes over a token.                                    *)
advanceSkipping(c) ==
    [c EXCEPT !.index = c.index + 2,
              !.current = TokenAt(c.tokens, c.index + 2)]

(* ctx->current = ctx->tokens[++ctx->index]                                *)
advance(c) ==
    [c EXCEPT !.index = c.index + 1,
              !.current = TokenAt(c.tokens, c.index + 1)]

(* The context after the parser has obtained n more blocks from malloc,    *)
(* or from realloc of a null pointer: allocated counts the blocks parse    *)
(* has obtained so far.  The parser calls free nowhere.                    *)
Allocate(c, n) == [c EXCEPT !.allocated = @ + n]

(* ISCURRENTTOKENTYPE, ISCURRENTTOKEN and ISNEXTTOKEN *)
ISCURRENTTOKENTYPE(c, type) == c.current.type = type

ISCURRENTTOKEN(c, type, value) ==
    c.current.type = type /\ c.current.value = value

NEXTTOKEN(c) == TokenAt(c.tokens, c.index + 1)

ISNEXTTOKEN(c, type, value) ==
    NEXTTOKEN(c).type = type /\ NEXTTOKEN(c).value = value

(* The strings the parser compares keyword lexemes with.                   *)
STR == [ kw_if |-> <<105, 102>>, kw_else |-> <<101, 108, 115, 101>>,
         kw_while |-> <<119, 104, 105, 108, 101>>,
         kw_for |-> <<102, 111, 114>> ]

(* The nodes, one constructor per struct of parser.h.                      *)
ValueNode(type, value) == [ type |-> type, value |-> value ]

VariableAccessNode(name) == [ type |-> "NT_VARACCESS", name |-> name ]

BinaryOperationNode(lhs, rhs, op) ==
    [ type |-> "NT_BINOP", lhs |-> lhs, rhs |-> rhs, op |-> op ]

UnaryOperationNode(value, op) ==
    [ type |-> "NT_UNARYOP", value |-> value, op |-> op ]

(* The call node with its arguments in reverse.                            *)
FunctionCallNodeReversed(function, arguments) ==
    [ type |-> "NT_FUNCCALL", function |-> function,
      arguments |-> [ k \in 1..Len(arguments) |->
                        arguments[Len(arguments) + 1 - k] ] ]

FunctionCallNode(function, arguments) ==
    [ type |-> "NT_FUNCCALL", function |-> function,
      arguments |-> arguments ]

ArrayAccessNode(array, index) ==
    [ type |-> "NT_ARRAYACCESS", array |-> array, index |-> index ]

AccessNode(object, op, member) ==
    [ type |-> "NT_ACCESS", object |-> object, op |-> op, member |-> member ]

(* The for node with condition and increment exchanged.                    *)
ForNodeExchanged(initializer, condition, increment, body) ==
    [ type |-> "NT_FOR", initializer |-> initializer,
      condition |-> increment, increment |-> condition, body |-> body ]

ForNode(initializer, condition, increment, body) ==
    [ type |-> "NT_FOR", initializer |-> initializer,
      condition |-> condition, increment |-> increment, body |-> body ]

WhileNode(condition, body) ==
    [ type |-> "NT_WHILE", condition |-> condition, body |-> body ]

(* The if node without its else.                                           *)
IfNodeWithoutElse(conditions, bodies, elseCase) ==
    [ type |-> "NT_IF", conditions |-> conditions, bodies |-> bodies,
      elseCase |-> [ type |-> "NULL" ] ]

IfNode(conditions, bodies, elseCase) ==
    [ type |-> "NT_IF", conditions |-> conditions, bodies |-> bodies,
      elseCase |-> elseCase ]

CompoundNode(statements) ==
    [ type |-> "NT_COMPOUND", statements |-> statements ]

(* The node of the empty statement: its type is set and nothing else.      *)
EmptyNode == [ type |-> "NT_NONE" ]

(* What a parse function gives: the node it returns (NoNode for NULL) and  *)
(* the context as it leaves it; hang when it never returns.                *)
Returned(node, c) == [ node |-> node, ctx |-> c, hang |-> FALSE ]

Failed(c) == Returned(NoNode, c)

NeverReturns(c) == [ node |-> NoNode, ctx |-> c, hang |-> TRUE ]

(* The node type parseLiteralExpression gives each literal token.          *)
LiteralType ==
    [ t \in { "TT_INT", "TT_FLOAT", "TT_STRING", "TT_CHAR" } |->
        CASE t = "TT_INT" -> "NT_INT"
          [] t = "TT_FLOAT" -> "NT_FLOAT"
          [] t = "TT_STRING" -> "NT_STRING"
          [] t = "TT_CHAR" -> "NT_CHAR" ]

(* The levels of binary operators, lowest first, with the token types the  *)
(* loop of each level tests for: parseAssignmentExpression,                *)
(* parseOrExpression, parseXorExpression, parseAndExpression,              *)
(* parseEqualityExpression, parseComparisonExpression,                     *)
(* parseArithmeticExpression, parseBinaryOrExpression,                     *)
(* parseBinaryXorExpression, parseBinaryAndExpression,                     *)
(* parseTermExpression, parseFactorExpression.                             *)
LevelOperators ==
    << { "TT_ASSIGN", "TT_LSHEQ", "TT_RSHEQ", "TT_MULEQ", "TT_DIVEQ",
         "TT_ANDEQ", "TT_OREQ", "TT_XOREQ", "TT_ADDEQ", "TT_SUBEQ" },
       { "TT_OR" }, { "TT_XOR" }, { "TT_AND" },
       { "TT_EQ", "TT_NEQ" },
       { "TT_LT", "TT_GT", "TT_LTE", "TT_GTE" },
       { "TT_ADD", "TT_SUB" },
       { "TT_BOR" }, { "TT_BXOR" }, { "TT_BAND" },
       { "TT_MUL", "TT_DIV", "TT_MOD" },
       { "TT_POW", "TT_LSH", "TT_RSH" } >>

(* The test that also takes the empty statement for a failure.             *)
StatementFailedOrEmpty(statement) ==
    statement = NoNode \/ statement = EmptyNode

(* The test of parse on what parseStatement returned.                      *)
StatementFailed(statement) == statement = NoNode

(* A call whose result is kept in a local variable of the caller: Op on    *)
(* the value of v, which is computed once.                                 *)
Once(Op(_), v) == CHOOSE result \in { Op(kept) : kept \in { v } } : TRUE

RECURSIVE parseExpression(_)
RECURSIVE parseLevel(_, _)
RECURSIVE LevelLoop(_, _)
RECURSIVE Climb(_, _, _)
RECURSIVE parseUnaryExpression(_)
RECURSIVE parseAccessExpression(_)
RECURSIVE AccessLoop(_, _)
RECURSIVE ArgumentLoop(_, _)
RECURSIVE parseLiteralExpression(_)

parseLiteralExpression(c) ==
    LET Parenthesized(expression) ==
            IF expression.node = NoNode
            THEN Failed(expression.ctx)
            ELSE IF ~ISCURRENTTOKENTYPE(expression.ctx, "TT_RPAREN")
            THEN Failed(expression.ctx)
            ELSE Returned(expression.node, advance(expression.ctx))
    IN  IF c.current.type \in DOMAIN LiteralType
        THEN Returned(ValueNode(LiteralType[c.current.type], c.current),
                      advance(Allocate(c, 2)))
        ELSE IF ISCURRENTTOKENTYPE(c, "TT_IDENTIFIER")
        THEN Returned(VariableAccessNode(c.current), advance(Allocate(c, 2)))
        ELSE IF ISCURRENTTOKENTYPE(c, "TT_LPAREN")
        THEN Once(Parenthesized, parseExpression(advance(c)))
        ELSE Failed(c)

(* One argument slot of a call: NULL when the slot is empty (a ',' or the  *)
(* ')' stands there), else the expression; ok is FALSE when the expression *)
(* failed.                                                                 *)
Argument(c, empties) ==
    LET Slot(expression) ==
            [ ok |-> expression.node # NoNode, node |-> expression.node,
              ctx |-> expression.ctx ]
    IN  IF c.current.type \in empties
        THEN [ ok |-> TRUE, node |-> NoNode, ctx |-> c ]
        ELSE Once(Slot, parseExpression(c))

(* while (ISCURRENTTOKENTYPE(ctx, TT_COMMA)) of the call branch            *)
ArgumentLoop(arguments, c) ==
    LET Appended(a) ==
            IF ~a.ok
            THEN [ ok |-> FALSE, arguments |-> arguments, ctx |-> a.ctx ]
            ELSE ArgumentLoop(Append(arguments, a.node), a.ctx)
    IN  IF ISCURRENTTOKENTYPE(c, "TT_COMMA")
        THEN Once(Appended,
                  Argument(advance(c), { "TT_COMMA", "TT_RPAREN" }))
        ELSE [ ok |-> TRUE, arguments |-> arguments, ctx |-> c ]

(* The argument list of a call, entered behind the '('.  The array is      *)
(* allocated when the first entry is stored and grown by realloc after.    *)
Arguments(c) ==
    LET First(a) ==
            IF ~a.ok
            THEN [ ok |-> FALSE, arguments |-> << >>, ctx |-> a.ctx ]
            ELSE ArgumentLoop(<< a.node >>, Allocate(a.ctx, 1))
    IN  IF ~ISCURRENTTOKENTYPE(c, "TT_RPAREN")
        THEN Once(First, Argument(c, { "TT_COMMA" }))
        ELSE [ ok |-> TRUE, arguments |-> << >>, ctx |-> c ]

(* The while loop of parseAccessExpression.                                *)
AccessLoop(access, c) ==
    LET Called(a) ==
            IF ~a.ok
            THEN Failed(a.ctx)
            ELSE IF ~ISCURRENTTOKENTYPE(a.ctx, "TT_RPAREN")
            THEN Failed(a.ctx)
            ELSE AccessLoop(FunctionCallNode(access, a.arguments),
                            Allocate(advance(a.ctx), 2))
        Indexed(index) ==
            IF index.node = NoNode
            THEN Failed(index.ctx)
            ELSE IF ~ISCURRENTTOKENTYPE(index.ctx, "TT_RBRACKET")
            THEN Failed(index.ctx)
            ELSE AccessLoop(ArrayAccessNode(access, index.node),
                            Allocate(advance(index.ctx), 2))
        Member(op, c1) ==
            IF ~ISCURRENTTOKENTYPE(c1, "TT_IDENTIFIER")
            THEN Failed(c1)
            ELSE AccessLoop(AccessNode(access, op, c1.current),
                            Allocate(advance(c1), 2))
    IN  IF ISCURRENTTOKENTYPE(c, "TT_LPAREN")
        THEN Once(Called, Arguments(advance(c)))
        ELSE IF ISCURRENTTOKENTYPE(c, "TT_LBRACKET")
        THEN Once(Indexed, parseExpression(advance(c)))
        ELSE IF ISCURRENTTOKENTYPE(c, "TT_DOT")
                \/ ISCURRENTTOKENTYPE(c, "TT_ARROW")
        THEN Member(c.current, advance(c))
        ELSE Returned(access, c)

(* access = parseLiteralExpression(ctx) and the loop on it; access is not  *)
(* tested for NULL.                                                        *)
parseAccessExpression(c) ==
    LET Accessed(access) == AccessLoop(access.node, access.ctx)
    IN  Once(Accessed, parseLiteralExpression(c))

(* After a prefix operator and its operand the UnaryOperationNode res is   *)
(* built and dropped: control leaves the if and what is returned is        *)
(* parseAccessExpression(ctx).                                             *)
parseUnaryExpression(c) ==
    LET Prefixed(expression) ==
            IF expression.node = NoNode
            THEN Failed(expression.ctx)
            ELSE parseAccessExpression(Allocate(expression.ctx, 2))
    IN  IF ISCURRENTTOKENTYPE(c, "TT_SUB") \/ ISCURRENTTOKENTYPE(c, "TT_MUL")
        THEN Once(Prefixed, parseUnaryExpression(advance(c)))
        ELSE parseAccessExpression(c)

(* The while loop of a level: neither operand is tested for NULL.  The     *)
(* operand to the right of an operator is parsed by the next level.        *)
LevelLoop(lv, lhs) ==
    LET Combined(rhs) ==
            Once(LAMBDA binop : LevelLoop(lv, binop),
                 Returned(BinaryOperationNode(lhs.node, rhs.node,
                                              lhs.ctx.current),
                          Allocate(rhs.ctx, 2)))
    IN  IF lhs.ctx.current.type \in LevelOperators[lv]
        THEN Once(Combined, parseLevel(lv + 1, advance(lhs.ctx)))
        ELSE lhs

(* The level whose loop runs next on an operand that levels k and above    *)
(* have returned: a level whose while test fails returns its operand as    *)
(* it is, so it is the last level up to k that tests for the type of the   *)
(* current token; 0 when levels lv..k all return the operand.              *)
NextLevel(k, lv, type) ==
    LET testing == { j \in lv..k : type \in LevelOperators[j] }
    IN  IF testing = { } THEN 0
        ELSE CHOOSE j \in testing : \A m \in testing : m <= j

(* The levels from k down to lv, each run on what the level after it       *)
(* returned.                                                               *)
Climb(k, lv, operand) ==
    LET Level(j) ==
            IF j = 0 THEN operand
            ELSE Once(LAMBDA lhs : Climb(j - 1, lv, lhs),
                      LevelLoop(j, operand))
    IN  Level(NextLevel(k, lv, operand.ctx.current.type))

(* The function of level lv: its first operand is what the chain of calls  *)
(* down to parseUnaryExpression returns, with the loop of each level run   *)
(* on the way back.  Level Len(LevelOperators) + 1 is                      *)
(* parseUnaryExpression.                                                   *)
parseLevel(lv, c) ==
    Once(LAMBDA operand : Climb(Len(LevelOperators), lv, operand),
         parseUnaryExpression(c))

parseAssignmentExpression(c) == parseLevel(1, c)

parseExpression(c) == parseAssignmentExpression(c)

parseVariableDeclerationOrExpression(c) == parseExpression(c)

RECURSIVE parseStatement(_)
RECURSIVE ElseIfLoop(_, _, _)
RECURSIVE CompoundLoop(_, _)

(* The header of an if or a while, entered behind the keyword:             *)
(* ( expression ) with the expression tested for NULL when checked is set. *)
Condition(c, checked) ==
    LET Closed(condition) ==
            IF checked /\ condition.node = NoNode
            THEN [ ok |-> FALSE, node |-> NoNode, ctx |-> condition.ctx ]
            ELSE IF ~ISCURRENTTOKENTYPE(condition.ctx, "TT_RPAREN")
            THEN [ ok |-> FALSE, node |-> NoNode, ctx |-> condition.ctx ]
            ELSE [ ok |-> TRUE, node |-> condition.node,
                   ctx |-> advance(condition.ctx) ]
    IN  IF ~ISCURRENTTOKENTYPE(c, "TT_LPAREN")
        THEN [ ok |-> FALSE, node |-> NoNode, ctx |-> c ]
        ELSE Once(Closed, parseExpression(advance(c)))

(* The else-if loop and the else of an if statement.                       *)
ElseIfLoop(conditions, bodies, c) ==
    LET CaseBody(caseCondition, caseBody) ==
            IF caseBody.hang THEN caseBody
            ELSE IF caseBody.node = NoNode
            THEN Failed(caseBody.ctx)
            ELSE ElseIfLoop(Append(conditions, caseCondition.node),
                            Append(bodies, caseBody.node), caseBody.ctx)
        Case(caseCondition) ==
            IF ~caseCondition.ok
            THEN Failed(caseCondition.ctx)
            ELSE Once(LAMBDA caseBody : CaseBody(caseCondition, caseBody),
                      parseStatement(caseCondition.ctx))
        Else(elseCase) ==
            IF elseCase.hang THEN elseCase
            ELSE IF elseCase.node = NoNode
            THEN Failed(elseCase.ctx)
            ELSE Returned(IfNode(conditions, bodies, elseCase.node),
                          elseCase.ctx)
    IN  IF ISCURRENTTOKEN(c, "TT_KEYWORD", STR.kw_else)
           /\ ISNEXTTOKEN(c, "TT_KEYWORD", STR.kw_if)
        THEN Once(Case, Condition(advance(advance(c)), FALSE))
        ELSE IF ISCURRENTTOKEN(c, "TT_KEYWORD", STR.kw_else)
        THEN Once(Else, parseStatement(advance(c)))
        ELSE Returned(IfNode(conditions, bodies, NoNode), c)

(* One slot of a for header: NULL when the token that closes the slot      *)
(* stands there, else the expression, which has to be followed by that     *)
(* token.                                                                  *)
ForSlot(c, closing) ==
    LET Filled(expression) ==
            IF expression.node = NoNode
            THEN [ ok |-> FALSE, node |-> NoNode, ctx |-> expression.ctx ]
            ELSE IF ~ISCURRENTTOKENTYPE(expression.ctx, closing)
            THEN [ ok |-> FALSE, node |-> NoNode, ctx |-> expression.ctx ]
            ELSE [ ok |-> TRUE, node |-> expression.node,
                   ctx |-> advance(expression.ctx) ]
    IN  IF ~ISCURRENTTOKENTYPE(c, closing)
        THEN Once(Filled, parseExpression(c))
        ELSE [ ok |-> TRUE, node |-> NoNode, ctx |-> advance(c) ]

(* while (!ISCURRENTTOKENTYPE(ctx, TT_RBRACE)) of the compound statement.  *)
(* The test in the loop is on the CompoundNode, which is never NULL, so a  *)
(* statement that failed is appended as NULL and the loop goes on.  When   *)
(* the statement failed without moving the context the next iteration      *)
(* fails in the same way, and so does every one after it: the loop grows   *)
(* the list until realloc gives NULL and the store through it faults.      *)
CompoundLoop(statements, c) ==
    LET Appended(stmnt) ==
            IF stmnt.hang THEN stmnt
            ELSE IF stmnt.node = NoNode /\ stmnt.ctx = c
            THEN NeverReturns(c)
            ELSE CompoundLoop(Append(statements, stmnt.node),
                              IF statements = << >>
                              THEN Allocate(stmnt.ctx, 1) ELSE stmnt.ctx)
    IN  IF ~ISCURRENTTOKENTYPE(c, "TT_RBRACE")
        THEN Once(Appended, parseStatement(c))
        ELSE IF ISCURRENTTOKENTYPE(c, "TT_EOF")
        THEN Failed(c)
        ELSE Returned(CompoundNode(statements), advance(c))

(* The last lines of parseStatement: an expression and its ';'.            *)
ExpressionStatement(c) ==
    LET Terminated(expression) ==
            IF expression.node = NoNode
            THEN Failed(expression.ctx)
            ELSE IF ~ISCURRENTTOKENTYPE(expression.ctx, "TT_SEMICOLON")
            THEN Failed(expression.ctx)
            ELSE Returned(expression.node, advance(expression.ctx))
    IN  Once(Terminated, parseExpression(c))

(* The IfNode and its Node are allocated on entry, the arrays bodies and   *)
(* conditions behind the first body, which is not tested for NULL.         *)
IfStatement(c) ==
    LET Body(condition, body) ==
            IF body.hang THEN body
            ELSE ElseIfLoop(<< condition.node >>, << body.node >>,
                            Allocate(body.ctx, 2))
        Header(condition) ==
            IF ~condition.ok
            THEN Failed(condition.ctx)
            ELSE Once(LAMBDA body : Body(condition, body),
                      parseStatement(condition.ctx))
    IN  Once(Header, Condition(advance(Allocate(c, 2)), TRUE))

WhileStatement(c) ==
    LET Body(condition, body) ==
            IF body.hang THEN body
            ELSE IF body.node = NoNode
            THEN Failed(body.ctx)
            ELSE Returned(WhileNode(condition.node, body.node),
                          Allocate(body.ctx, 2))
        Header(condition) ==
            IF ~condition.ok
            THEN Failed(condition.ctx)
            ELSE Once(LAMBDA body : Body(condition, body),
                      parseStatement(condition.ctx))
    IN  Once(Header, Condition(advance(c), TRUE))

ForStatement(c) ==
    LET Body(initializer, condition, increment, body) ==
            IF body.hang THEN body
            ELSE IF body.node = NoNode
            THEN Failed(body.ctx)
            ELSE Returned(ForNode(initializer.node, condition.node,
                                  increment.node, body.node), body.ctx)
        Third(initializer, condition, increment) ==
            IF ~increment.ok THEN Failed(increment.ctx)
            ELSE Once(LAMBDA body :
                          Body(initializer, condition, increment, body),
                      parseStatement(increment.ctx))
        Second(initializer, condition) ==
            IF ~condition.ok THEN Failed(condition.ctx)
            ELSE Once(LAMBDA increment :
                          Third(initializer, condition, increment),
                      ForSlot(condition.ctx, "TT_RPAREN"))
        First(initializer) ==
            IF ~initializer.ok THEN Failed(initializer.ctx)
            ELSE Once(LAMBDA condition : Second(initializer, condition),
                      ForSlot(initializer.ctx, "TT_SEMICOLON"))
        Header(c1) ==
            IF ~ISCURRENTTOKENTYPE(c1, "TT_LPAREN")
            THEN Failed(c1)
            ELSE Once(First, ForSlot(advance(c1), "TT_SEMICOLON"))
    IN  Header(advance(Allocate(c, 2)))

parseStatement(c) ==
    IF ISCURRENTTOKEN(c, "TT_KEYWORD", STR.kw_if)
    THEN IfStatement(c)
    ELSE IF ISCURRENTTOKEN(c, "TT_KEYWORD", STR.kw_while)
    THEN WhileStatement(c)
    ELSE IF ISCURRENTTOKEN(c, "TT_KEYWORD", STR.kw_for)
    THEN ForStatement(c)
    ELSE IF ISCURRENTTOKENTYPE(c, "TT_LBRACE")
    THEN CompoundLoop(<< >>, Allocate(advance(c), 2))
    ELSE IF ISCURRENTTOKENTYPE(c, "TT_SEMICOLON")
    THEN Returned(EmptyNode, advance(Allocate(c, 1)))
    ELSE ExpressionStatement(c)

(* The state of the parser when parse has not been called.                 *)
ParserIdle ==
    /\ ctx = [ tokens |-> << >>, index |-> 0, current |-> TokenAt(<< >>, 0),
               allocated |-> 0 ]
    /\ program = << >>
    /\ AST = NoNode
    /\ pstatus = "idle"
    /\ released = 0
    /\ wild = 0

(* The state of the lexer while the parser runs.                           *)
LexerIdle ==
    /\ source = << >>
    /\ i = 0
    /\ line = 1
    /\ col = 1
    /\ tokens = << >>
    /\ status = "idle"
    /\ ret = "none"
    /\ diag = << >>
    /\ oom = FALSE
    /\ heap = << >>
    /\ store = [ tokens |-> NULL, sTokens |-> 0, values |-> << >> ]

(* parse(toks, file, source) up to its loop: the context with index -1     *)
(* advanced once, and the empty program, for which the Node AST and the    *)
(* CompoundNode program have been allocated.                               *)
InitParse(toks) ==
    /\ ctx = [ tokens |-> toks, index |-> 0, current |-> TokenAt(toks, 0),
               allocated |-> 2 ]
    /\ program = << >>
    /\ AST = NoNode
    /\ pstatus = "parsing"
    /\ released = 0
    /\ wild = 0
    /\ LexerIdle
    /\ CliIdle

Parsing == pstatus = "parsing" /\ ~ISCURRENTTOKENTYPE(ctx, "TT_EOF")

(* An iteration of the loop of parse that appends a statement.             *)
ParseStatement ==
    /\ Parsing
    /\ \E statement \in { parseStatement(ctx) } :
           /\ ~statement.hang
           /\ ~StatementFailed(statement.node)
           /\ program' = Append(program, statement.node)
           /\ ctx' = IF program = << >> THEN Allocate(statement.ctx, 1)
                     ELSE statement.ctx
    /\ UNCHANGED <<AST, pstatus, released, wild, lexvars, clivars>>

(* The iteration in which parseStatement returns NULL: break, and the root *)
(* is returned with what has been appended.                                *)
ParseBreak ==
    /\ Parsing
    /\ \E statement \in { parseStatement(ctx) } :
           /\ ~statement.hang
           /\ StatementFailed(statement.node)
           /\ ctx' = statement.ctx
    /\ AST' = CompoundNode(program)
    /\ pstatus' = "returned"
    /\ UNCHANGED <<program, released, wild, lexvars, clivars>>

(* The iteration in which parseStatement never returns.                    *)
ParseDiverge ==
    /\ Parsing
    /\ \E statement \in { parseStatement(ctx) } :
           /\ statement.hang
           /\ ctx' = statement.ctx
    /\ pstatus' = "diverged"
    /\ UNCHANGED <<program, AST, released, wild, lexvars, clivars>>

(* The loop ends at the TT_EOF token and the root is returned.             *)
ParseEOF ==
    /\ pstatus = "parsing"
    /\ ISCURRENTTOKENTYPE(ctx, "TT_EOF")
    /\ AST' = CompoundNode(program)
    /\ pstatus' = "returned"
    /\ UNCHANGED <<ctx, program, released, wild, lexvars, clivars>>

(***************************************************************************)
(* freeNode(root) on what parse has returned.                              *)
(***************************************************************************)
(* The children freeNode calls itself on, in the order of the calls: the   *)
(* slots of a for, the else of an if and the entries of an argument list   *)
(* when they are not NULL, every other child as it is.                     *)
FreedChildren(node) ==
    LET Set(children) == SelectSeq(children, LAMBDA child : child # NoNode)
    IN  CASE node.type = "NT_BINOP" -> << node.lhs, node.rhs >>
          [] node.type = "NT_UNARYOP" -> << node.value >>
          [] node.type = "NT_FUNCCALL" ->
                << node.function >> \o Set(node.arguments)
          [] node.type = "NT_ARRAYACCESS" -> << node.array, node.index >>
          [] node.type = "NT_ACCESS" -> << node.object >>
          [] node.type = "NT_FOR" ->
                Set(<< node.initializer, node.condition, node.increment >>)
                  \o << node.body >>
          [] node.type = "NT_WHILE" -> << node.condition, node.body >>
          [] node.type = "NT_IF" ->
                [ k \in 1..(2 * Len(node.conditions)) |->
                    IF k % 2 = 1 THEN node.conditions[(k + 1) \div 2]
                    ELSE node.bodies[k \div 2] ]
                  \o Set(<< node.elseCase >>)
          [] node.type = "NT_COMPOUND" -> node.statements
          [] OTHER -> << >>

(* The arrays of a node that freeNode releases: the argument list and the  *)
(* statement list when they are not NULL, conditions and bodies of an if.  *)
FreedArrays(node) ==
    CASE node.type = "NT_FUNCCALL" -> IF node.arguments = << >> THEN 0 ELSE 1
      [] node.type = "NT_IF" -> 2
      [] node.type = "NT_COMPOUND" -> IF node.statements = << >> THEN 0 ELSE 1
      [] OTHER -> 0

(* free(node->node); free(node); behind the switch.  The Node of an empty  *)
(* statement has its field node never set.                                 *)
FreeBlocks(node, done) ==
    IF done.fault THEN done
    ELSE IF node.type = "NT_NONE"
    THEN [done EXCEPT !.released = @ + FreedArrays(node) + 1,
                      !.wild = @ + 1]
    ELSE [done EXCEPT !.released = @ + FreedArrays(node) + 2]

(* freeNode(node) after what done records: the blocks released, the frees  *)
(* of a pointer never set, and fault when node->type has been read through *)
(* a NULL node, where the walk ends.                                       *)
RECURSIVE freeNode(_, _)
RECURSIVE freeNodes(_, _)
freeNode(node, done) ==
    IF done.fault THEN done
    ELSE IF node = NoNode THEN [done EXCEPT !.fault = TRUE]
    ELSE FreeBlocks(node, freeNodes(FreedChildren(node), done))

freeNodes(children, done) ==
    IF children = << >> THEN done
    ELSE freeNodes(Tail(children), freeNode(Head(children), done))

(* The caller of parse hands the root to freeNode.  A free of a pointer    *)
(* that was never set can fault or pass; a read through NULL faults.       *)
FreeNode ==
    /\ pstatus = "returned"
    /\ \E done \in { freeNode(AST, [ released |-> 0, wild |-> 0,
                                      fault |-> FALSE ]) } :
           /\ released' = done.released
           /\ wild' = done.wild
           /\ pstatus' \in IF done.fault THEN { "crashed" }
                           ELSE IF done.wild > 0 THEN { "freed", "crashed" }
                           ELSE { "freed" }
    /\ UNCHANGED <<ctx, program, AST, lexvars, clivars>>

NextParse ==
    \/ ParseStatement
    \/ ParseBreak
    \/ ParseDiverge
    \/ ParseEOF
    \/ FreeNode

(***************************************************************************)
(* The token arrays parse is run on.  Each ends with its TT_EOF token.     *)
(***************************************************************************)
Lexeme(type, value) ==
    Token(type, value # << >>, value, 0, 1, 1, Len(value))

Operator(type) == Lexeme(type, << >>)

Identifier(byte) == Lexeme("TT_IDENTIFIER", << byte >>)

T == [ a |-> Identifier(97), b |-> Identifier(98), c |-> Identifier(99),
       x |-> Identifier(120), y |-> Identifier(121),
       zero |-> Lexeme("TT_INT", << 48 >>),
       semicolon |-> Operator("TT_SEMICOLON"), comma |-> Operator("TT_COMMA"),
       lparen |-> Operator("TT_LPAREN"), rparen |-> Operator("TT_RPAREN"),
       lbrace |-> Operator("TT_LBRACE"), rbrace |-> Operator("TT_RBRACE"),
       lbracket |-> Operator("TT_LBRACKET"),
       rbracket |-> Operator("TT_RBRACKET"),
       dot |-> Operator("TT_DOT"), arrow |-> Operator("TT_ARROW"),
       sub |-> Operator("TT_SUB"), mul |-> Operator("TT_MUL"),
       assign |-> Operator("TT_ASSIGN"),
       kw_if |-> Lexeme("TT_KEYWORD", STR.kw_if),
       kw_else |-> Lexeme("TT_KEYWORD", STR.kw_else),
       kw_for |-> Lexeme("TT_KEYWORD", STR.kw_for),
       kw_while |-> Lexeme("TT_KEYWORD", STR.kw_while),
       eof |-> Operator("TT_EOF") ]

Stream(lexemes) == lexemes \o << T.eof >>

RECURSIVE Concat(_)
Concat(seqs) == IF seqs = << >> THEN << >> ELSE Head(seqs) \o Concat(Tail(seqs))

(* Every array of up to MaxTokens tokens over a small vocabulary.          *)
TokenAlphabet ==
    { T.a, T.zero, T.semicolon, T.lbrace, T.rbrace, T.lparen, T.rparen,
      T.sub, T.assign, T.kw_if, T.kw_else, T.comma }

AnyStreams == { Stream(s) : s \in Strs(TokenAlphabet, MaxTokens) }

(* The binary operators of the language by level, lowest first, as the     *)
(* specification lists them.                                               *)
Ladder ==
    << { "TT_ASSIGN", "TT_ADDEQ", "TT_SUBEQ", "TT_MULEQ", "TT_DIVEQ",
         "TT_MODEQ", "TT_LSHEQ", "TT_RSHEQ", "TT_ANDEQ", "TT_OREQ",
         "TT_XOREQ" },
       { "TT_OR" }, { "TT_XOR" }, { "TT_AND" },
       { "TT_EQ", "TT_NEQ" },
       { "TT_LT", "TT_GT", "TT_LTE", "TT_GTE" },
       { "TT_ADD", "TT_SUB" },
       { "TT_BOR" }, { "TT_BXOR" }, { "TT_BAND" },
       { "TT_MUL", "TT_DIV", "TT_MOD" },
       { "TT_LSH", "TT_RSH", "TT_POW" } >>

BinaryOperators == UNION { Ladder[lv] : lv \in DOMAIN Ladder }

LevelOf(op) == CHOOSE lv \in DOMAIN Ladder : op \in Ladder[lv]

(* a op b ;  and  a op1 b op2 c ;                                           *)
OneOperator(op) == Stream(<< T.a, Operator(op), T.b, T.semicolon >>)

TwoOperators(op1, op2) ==
    Stream(<< T.a, Operator(op1), T.b, Operator(op2), T.c, T.semicolon >>)

OperatorStreams ==
    { OneOperator(op) : op \in BinaryOperators }
      \cup { TwoOperators(op1, op2) : op1, op2 \in BinaryOperators }

(* Prefix operators before an operand:  - x ;   * x ;   - * x ;  ...       *)
PrefixStreams ==
    { Stream(p \o << T.x, T.semicolon >>) :
        p \in Strs({ T.sub, T.mul }, MaxTokens) \ { << >> } }

(* a followed by up to MaxPostfix postfix operators and a ';'.             *)
Postfixes ==
    { << T.dot, T.b >>, << T.arrow, T.c >>,
      << T.lbracket, T.zero, T.rbracket >>,
      << T.lparen, T.rparen >>, << T.lparen, T.x, T.rparen >>,
      << T.lparen, T.x, T.comma, T.y, T.rparen >> }

PostfixStream(chain) ==
    Stream(<< T.a >> \o Concat(chain) \o << T.semicolon >>)

PostfixStreams == { PostfixStream(chain) : chain \in Strs(Postfixes, MaxPostfix) }

(* Statements that stand as the body of an if or a for.                    *)
Bodies ==
    { << T.a, T.semicolon >>, << T.b, T.semicolon >>, << T.c, T.semicolon >>,
      << T.semicolon >>, << T.lbrace, T.rbrace >>,
      << T.lbrace, T.b, T.semicolon, T.rbrace >> }

(* if (x) body, cases else-if clauses, and the else when there is one.     *)
IfStream(body, cases, else) ==
    Stream(<< T.kw_if, T.lparen, T.x, T.rparen >> \o body
           \o Concat([ k \in 1..Len(cases) |->
                         << T.kw_else, T.kw_if, T.lparen, cases[k].condition,
                            T.rparen >> \o cases[k].body ])
           \o Concat([ k \in 1..Len(else) |-> << T.kw_else >> \o else[k] ]))

Cases == [ condition : { T.y }, body : Bodies ]

IfInputs ==
    [ body : Bodies, cases : Strs(Cases, MaxElseIfs),
      else : Strs(Bodies, 1) ]

IfStreams == { IfStream(in.body, in.cases, in.else) : in \in IfInputs }

(* for ( init ; cond ; step ) body, each slot empty or an expression.      *)
ForStream(init, cond, step, body) ==
    Stream(<< T.kw_for, T.lparen >> \o init \o << T.semicolon >> \o cond
           \o << T.semicolon >> \o step \o << T.rparen >> \o body)

Slots == { << >>, << T.a >>, << T.a, T.assign, T.zero >> }

ForInputs == [ init : Slots, cond : Slots, step : Slots, body : Bodies ]

ForStreams ==
    { ForStream(in.init, in.cond, in.step, in.body) : in \in ForInputs }

(* while ( a ) body *)
WhileStreams ==
    { Stream(<< T.kw_while, T.lparen, T.a, T.rparen >> \o body) :
        body \in Bodies }

(* a ( list ) ;  with every list of up to MaxArguments tokens drawn from   *)
(* two expressions and the comma: well-formed lists and lists with a       *)
(* missing argument.                                                       *)
ArgumentStreams ==
    { Stream(<< T.a, T.lparen >> \o list \o << T.rparen, T.semicolon >>) :
        list \in Strs({ T.x, T.y, T.comma }, MaxArguments) }

(* Programs of up to MaxStatements statements.                             *)
Statements ==
    Bodies
      \cup { << T.kw_if, T.lparen, T.x, T.rparen, T.a, T.semicolon >>,
             << T.kw_if, T.lparen, T.x, T.rparen, T.a, T.semicolon,
                T.kw_else, T.b, T.semicolon >>,
             << T.kw_while, T.lparen, T.x, T.rparen, T.semicolon >>,
             << T.a, T.assign, T.b, T.sub, T.c, T.semicolon >> }

ProgramStreams ==
    { Stream(Concat(p)) : p \in Strs(Statements, MaxStatements) }

(* The context parse starts its loop with.                                 *)
Start(toks) ==
    [ tokens |-> toks, index |-> 0, current |-> TokenAt(toks, 0),
      allocated |-> 2 ]

(* The families of token arrays parse is started on.                       *)
StreamFamilies ==
    { AnyStreams, OperatorStreams, PrefixStreams, PostfixStreams,
      IfStreams, ForStreams, WhileStreams, ArgumentStreams,
      ProgramStreams }

InitParser ==
    \E family \in StreamFamilies : \E toks \in family : InitParse(toks)

SpecParse == InitParser /\ [][NextParse]_vars

(* parse as a running program: an iteration of its loop that can be taken  *)
(* is taken.  Whether the caller ever hands the root to freeNode is left   *)
(* open.                                                                   *)
ParseLoop == ParseStatement \/ ParseBreak \/ ParseDiverge \/ ParseEOF

(* It is run on the shorter token arrays.                                   *)
ShortStreams == { Stream(s) : s \in Strs(TokenAlphabet, MaxTokens - 1) }

InitRuns == \E toks \in ShortStreams : InitParse(toks)

SpecParseRuns == InitRuns /\ [][NextParse]_vars /\ WF_vars(ParseLoop)

(***************************************************************************)
(* The allocator.  A pointer is the position of its request in heap.       *)
(***************************************************************************)
(* What an allocation request can give: TRUE for a block, FALSE for NULL.  *)
AllocOutcomes == IF oom THEN BOOLEAN ELSE { TRUE }

(* malloc, calloc, and realloc of a null pointer: the heap after the       *)
(* request; the pointer returned is Allocated(h, ok).                      *)
malloc(h, ok) == Append(h, IF ok THEN "live" ELSE "NULL")

Allocated(h, ok) == IF ok THEN Len(h) + 1 ELSE NULL

Released(state) == IF state = "live" THEN "freed" ELSE "freed twice"

free(h, p) == IF p = NULL THEN h ELSE [h EXCEPT ![p] = Released(@)]

(* free(tokens[k].value) for each token of the array: block b is released  *)
(* once for every token that points at it.                                 *)
freeValues(h, vals) ==
    [ b \in DOMAIN h |->
        LET n == Cardinality({ k \in DOMAIN vals : vals[k] = b })
        IN  IF n = 0 THEN h[b]
            ELSE IF n = 1 THEN Released(h[b])
            ELSE "freed twice" ]

(* freeTokens(tokens, nTokens) with vals the .value pointers of the        *)
(* nTokens tokens of the array p.                                          *)
freeTokens(h, p, vals) ==
    IF p = NULL THEN h ELSE free(freeValues(h, vals), p)

(* The capacity tokenize gives sTokens at the start.                       *)
InitialSTokens == 128

(* appendToken for a token whose .value is the pointer p; ok is what       *)
(* realloc gives when the array is full; c is the column of the caller.    *)
(* res is "ok" (true is returned), "fail" (false is returned after         *)
(* freeTokens and *tokens = NULL) or "crash" (the token is written through *)
(* a null *tokens).                                                        *)
appendToken(h, st, toks, token, p, ok, c) ==
    LET full == Len(toks) >= st.sTokens
        newSize == IF st.sTokens = 0 THEN InitialSTokens ELSE st.sTokens * 2
        h1  == IF ~full THEN h
               ELSE IF st.tokens = NULL \/ ~ok THEN malloc(h, ok)
               ELSE h  \* the array is resized: the same block
        st1 == IF full
               THEN [st EXCEPT !.tokens = IF st.tokens = NULL
                                          THEN Allocated(h, ok) ELSE @,
                               !.sTokens = newSize]
               ELSE st
    IN  IF full /\ ~ok
        THEN [ res |-> "fail",
               heap |-> freeTokens(h1, st.tokens, st.values),
               store |-> [st EXCEPT !.tokens = NULL],
               tokens |-> toks,
               msgs |-> << Msg("Memory alloation failed in appendToken",
                               line, c),
                           Msg("realloc: Cannot allocate memory", 0, 0) >> ]
        ELSE IF st1.tokens = NULL
        THEN [ res |-> "crash", heap |-> h1, store |-> st1, tokens |-> toks,
               msgs |-> << >> ]
        ELSE [ res |-> "ok", heap |-> h1,
               store |-> [st1 EXCEPT !.values = Append(@, p)],
               tokens |-> Append(toks, token), msgs |-> << >> ]

(* return NULL after freeTokens(tokens, nTokens) and the diagnostics; h is *)
(* the heap once the case has released what it held itself.                *)
Fail(h, i2, line2, col2, msgs) ==
    /\ i' = i2
    /\ line' = line2
    /\ col' = col2
    /\ tokens' = << >>
    /\ status' = "failed"
    /\ ret' = "NULL"
    /\ diag' = diag \o msgs
    /\ heap' = freeTokens(h, store.tokens, store.values)
    /\ UNCHANGED <<source, oom, store, pvars, clivars>>

(* appendToken returned true: the token r.tokens ends with is in the array *)
(* and the cursor and the column move on.                                  *)
AppendOk(r, i2, col2, msgs) ==
    /\ r.res = "ok"
    /\ tokens' = r.tokens
    /\ heap' = r.heap
    /\ store' = r.store
    /\ i' = i2
    /\ col' = col2
    /\ diag' = diag \o msgs
    /\ UNCHANGED <<source, line, oom, pvars, clivars>>

(* appendToken returned false: the case releases the payload p of the      *)
(* token, calls freeTokens on the pointer appendToken has set to NULL      *)
(* where it calls it at all, and returns NULL.  Or appendToken wrote       *)
(* through a null pointer and the process is gone.                         *)
AppendFailed(r, p, i2, col2, msgs) ==
    /\ r.res # "ok"
    /\ i' = i2
    /\ col' = col2
    /\ store' = r.store
    /\ IF r.res = "fail"
       THEN /\ heap' = free(r.heap, p)
            /\ tokens' = << >>
            /\ status' = "failed"
            /\ ret' = "NULL"
            /\ diag' = diag \o msgs \o r.msgs
       ELSE /\ heap' = r.heap
            /\ status' = "crashed"
            /\ diag' = diag \o msgs
            /\ UNCHANGED <<tokens, ret>>
    /\ UNCHANGED <<source, line, oom, pvars, clivars>>

(* break out of the switch with a token appended: the loop goes on.  p is  *)
(* the token's .value in the heap h, c the column at the call.             *)
Emit(token, p, h, c, i2, col2, msgs) ==
    \E ok \in AllocOutcomes :
        LET r == appendToken(h, store, tokens, token, p, ok, c)
        IN  \/ AppendOk(r, i2, col2, msgs) /\ UNCHANGED <<status, ret>>
            \/ AppendFailed(r, p, i2, col2, msgs)

TypeOK ==
    /\ source \in Seq(0..255)
    /\ i \in Nat /\ line \in Nat /\ col \in Nat
    /\ status \in {"lexing", "done", "failed", "noreturn", "overrun",
                   "crashed", "idle"}
    /\ ret \in {"none", "tokens", "NULL", "garbage"}
    /\ oom \in BOOLEAN
    /\ heap \in Seq({"NULL", "live", "freed", "freed twice"})
    /\ store.tokens \in 0..Len(heap)
    /\ status = "lexing" => Len(store.values) = Len(tokens)

(* tokenize entered with the bytes of S as source, the array allocated.    *)
InitWith(S) ==
    /\ source \in S
    /\ i = 0
    /\ line = 1
    /\ col = 1
    /\ tokens = << >>
    /\ status = "lexing"
    /\ ret = "none"
    /\ diag = << >>
    /\ oom = FALSE
    /\ heap = malloc(<< >>, TRUE)
    /\ store = [ tokens |-> Allocated(<< >>, TRUE),
                 sTokens |-> InitialSTokens, values |-> << >> ]
    /\ ParserIdle
    /\ CliIdle

Init == InitWith(Strs(Alphabet, MaxLen))
InitOps == InitWith(Strs(OpAlphabet, MaxOpLen))

Lexing == status = "lexing" /\ At(i) # CH.nul

(* case '\t': case '\r': case ' ' *)
LexWhitespace ==
    /\ Lexing
    /\ At(i) \in {CH.tab, CH.cr, CH.space}
    /\ i' = i + 1
    /\ col' = col + 1
    /\ UNCHANGED <<source, line, tokens, status, ret, diag, oom, heap, store,
                   pvars, clivars>>

(* case '\n' *)
LexNewline ==
    /\ Lexing
    /\ At(i) = CH.lf
    /\ i' = i + 1
    /\ line' = line + 1
    /\ col' = 1
    /\ UNCHANGED <<source, tokens, status, ret, diag, oom, heap, store, pvars,
                   clivars>>


Op(type, len) == [ type |-> type, len |-> len ]

(* A shift operator with '=' after it is never split.                      *)
ShiftCaseSplit(c2, assignType, shiftType) == Op(shiftType, 2)

(* After "<<" or ">>": a following '=' makes the three-byte assignment.    *)
ShiftCase(c2, assignType, shiftType) ==
    IF c2 = CH.eq THEN Op(assignType, 3) ELSE Op(shiftType, 2)

(* The if-chains of the cases '+', '-', '*', '%', '<', '>', '^', '&', '|', *)
(* '=' and '!': the token type and length chosen for the operator that     *)
(* starts at index k.                                                      *)
OperatorCase(k) ==
    LET c  == At(k)
        c1 == At(k + 1)
        c2 == At(k + 2)
    IN  CASE c = CH.plus ->
               IF c1 = CH.plus THEN Op("TT_INC", 2)
               ELSE IF c1 = CH.eq THEN Op("TT_ADDEQ", 2)
               ELSE Op("TT_ADD", 1)
          [] c = CH.minus ->
               IF c1 = CH.minus THEN Op("TT_DEC", 2)
               ELSE IF c1 = CH.eq THEN Op("TT_SUBEQ", 2)
               ELSE IF c1 = CH.gt THEN Op("TT_ARROW", 2)
               ELSE Op("TT_SUB", 1)
          [] c = CH.star ->
               IF c1 = CH.eq THEN Op("TT_MULEQ", 2) ELSE Op("TT_MUL", 1)
          [] c = CH.percent ->
               IF c1 = CH.eq THEN Op("TT_MODEQ", 2) ELSE Op("TT_MOD", 1)
          [] c = CH.lt ->
               IF c1 = CH.eq THEN Op("TT_LTE", 2)
               ELSE IF c1 = CH.lt THEN ShiftCase(c2, "TT_LSHEQ", "TT_LSH")
               ELSE Op("TT_LT", 1)
          [] c = CH.gt ->
               IF c1 = CH.eq THEN Op("TT_GTE", 2)
               ELSE IF c1 = CH.gt THEN ShiftCase(c2, "TT_RSHEQ", "TT_RSH")
               ELSE Op("TT_GT", 1)
          [] c = CH.caret ->
               IF c1 = CH.eq THEN Op("TT_XOREQ", 2)
               ELSE IF c1 = CH.caret THEN Op("TT_XOR", 2)
               ELSE Op("TT_BXOR", 1)
          [] c = CH.amp ->
               IF c1 = CH.amp THEN Op("TT_AND", 2)
               ELSE IF c1 = CH.eq THEN Op("TT_ANDEQ", 2)
               ELSE Op("TT_BAND", 1)
          [] c = CH.pipe ->
               IF c1 = CH.pipe THEN Op("TT_OR", 2)
               ELSE IF c1 = CH.eq THEN Op("TT_OREQ", 2)
               ELSE Op("TT_BOR", 1)
          [] c = CH.eq ->
               IF c1 = CH.eq THEN Op("TT_EQ", 2) ELSE Op("TT_ASSIGN", 1)
          [] c = CH.bang ->
               IF c1 = CH.eq THEN Op("TT_NEQ", 2) ELSE Op("TT_NOT", 1)

OperatorStart ==
    { CH.plus, CH.minus, CH.star, CH.percent, CH.lt, CH.gt, CH.caret,
      CH.amp, CH.pipe, CH.eq, CH.bang }

(* The single-byte cases '~', '`', '(', ')', '{', '}', '[', ']', ';', ':'  *)
(* and ','.                                                                *)
PunctCase(c) ==
    CASE c = CH.tilde -> "TT_BNOT"
      [] c = CH.backtick -> "TT_POW"
      [] c = CH.lparen -> "TT_LPAREN"
      [] c = CH.rparen -> "TT_RPAREN"
      [] c = CH.lbrace -> "TT_LBRACE"
      [] c = CH.rbrace -> "TT_RBRACE"
      [] c = CH.lbracket -> "TT_LBRACKET"
      [] c = CH.rbracket -> "TT_RBRACKET"
      [] c = CH.semicolon -> "TT_SEMICOLON"
      [] c = CH.colon -> "TT_COLON"
      [] c = CH.comma -> "TT_COMMA"

PunctStart ==
    { CH.tilde, CH.backtick, CH.lparen, CH.rparen, CH.lbrace, CH.rbrace,
      CH.lbracket, CH.rbracket, CH.semicolon, CH.colon, CH.comma }

(* The operator cases: the cursor and the column move over the bytes after *)
(* the first while the operator is recognised, the token is placed at      *)
(* i - len + 1, and both move once more after the append.                  *)
LexOperator ==
    /\ Lexing
    /\ At(i) \in OperatorStart
    /\ LET op   == OperatorCase(i)
           i1   == i + (op.len - 1)
           col1 == col + (op.len - 1)
           token == Token(op.type, FALSE, << >>, i1 - op.len + 1, line,
                          col1 - op.len + 1, op.len)
       IN  Emit(token, NULL, heap, col1, i1 + 1, col1 + 1, << >>)

LexPunct ==
    /\ Lexing
    /\ At(i) \in PunctStart
    /\ Emit(Token(PunctCase(At(i)), FALSE, << >>, i, line, col, 1),
            NULL, heap, col, i + 1, col + 1, << >>)

(* while (source[i] && source[i] != '\n') i++;                             *)
RECURSIVE LineCommentEnd(_)
LineCommentEnd(k) ==
    IF At(k) # CH.nul /\ At(k) # CH.lf THEN LineCommentEnd(k + 1) ELSE k

(* The scan of a block comment that takes a lone '*' for its end.          *)
RECURSIVE BlockCommentScanStar(_)
BlockCommentScanStar(k) ==
    LET k1 == k + 1
    IN  IF At(k1) # CH.nul /\ At(k1) # CH.star
        THEN BlockCommentScanStar(k1)
        ELSE k1

(* while (source[++i] && !(source[i] == '*' && source[i + 1] == '/'));     *)
(* entered with i = k: the index at which the loop stops.                  *)
RECURSIVE BlockCommentScan(_)
BlockCommentScan(k) ==
    LET k1 == k + 1
    IN  IF At(k1) # CH.nul /\ ~(At(k1) = CH.star /\ At(k1 + 1) = CH.slash)
        THEN BlockCommentScan(k1)
        ELSE k1

(* After the scan of a terminated block comment: i++ (one byte).           *)
BlockCommentResume(k) == k + 1

(* case '/' *)
LexSlash ==
    /\ Lexing
    /\ At(i) = CH.slash
    /\ IF At(i + 1) = CH.eq
       THEN Emit(Token("TT_DIVEQ", FALSE, << >>, i, line, col, 2),
                 NULL, heap, col, i + 2, col + 2, << >>)
       ELSE IF At(i + 1) = CH.slash
       THEN /\ i' = LineCommentEnd(i)
            /\ UNCHANGED <<source, line, col, tokens, status, ret, diag, oom,
                           heap, store, pvars, clivars>>
       ELSE IF At(i + 1) = CH.star
       THEN LET stop == BlockCommentScan(i + 1)
            IN  IF At(stop) = CH.nul
                THEN Fail(heap, stop, line, col,
                          << Msg("Reached EOF while parsng block comment.",
                                 line, col) >>)
                ELSE /\ i' = BlockCommentResume(stop)
                     /\ UNCHANGED <<source, line, col, tokens, status, ret,
                                    diag, oom, heap, store, pvars, clivars>>
       ELSE Emit(Token("TT_DIV", FALSE, << >>, i, line, col, 1),
                 NULL, heap, col, i + 1, col + 1, << >>)

(* case '.' when no digit follows: "..." or "."                            *)
LexDot ==
    /\ Lexing
    /\ At(i) = CH.dot
    /\ ~isdigit(At(i + 1))
    /\ IF At(i + 1) = CH.dot /\ At(i + 2) = CH.dot
       THEN Emit(Token("TT_ELLIPSIS", FALSE, << >>, i, line, col, 3),
                 NULL, heap, col, i + 3, col + 3, << >>)
       ELSE Emit(Token("TT_DOT", FALSE, << >>, i, line, col, 1),
                 NULL, heap, col, i + 1, col + 1, << >>)

(***************************************************************************)
(* handleEscapeSequence                                                    *)
(***************************************************************************)
HexDigit(c) ==
    IF isdigit(c) THEN c - 48 ELSE IF c \in 65..70 THEN c - 55 ELSE c - 87

(* while (isxdigit(source[*i]) && hex_digits < 8): the index after the     *)
(* run, the number of digits and strtoull(hex_buffer, NULL, 16).           *)
RECURSIVE HexRun(_, _, _)
HexRun(k, n, val) ==
    IF isxdigit(At(k)) /\ n < 8
    THEN HexRun(k + 1, n + 1, val * 16 + HexDigit(At(k)))
    ELSE [ i |-> k, digits |-> n, val |-> val ]

(* while (source[*i] >= '0' && source[*i] <= '7' && octal_digits < 3)      *)
RECURSIVE OctalRun(_, _, _)
OctalRun(k, n, val) ==
    IF At(k) \in 48..55 /\ n < 3
    THEN OctalRun(k + 1, n + 1, val * 8 + (At(k) - 48))
    ELSE [ i |-> k, digits |-> n, val |-> val ]

(* The test that sends a byte after the backslash to the octal branch.     *)
OctalBranch(c) == isdigit(c)

Escaped(ok, value, i2, col2, msgs) ==
    [ ok |-> ok, value |-> value, i |-> i2, col |-> col2, msgs |-> msgs ]

(* Called with source[k] the backslash and c the column there.  value is   *)
(* result[0], the one byte of the string returned.                         *)
handleEscapeSequence(k, c) ==
    LET k1 == k + 1
        c1 == c + 1
    IN  IF At(k1) = CH.nul
        THEN Escaped(FALSE, 0, k1, c1,
                     << Msg("Unterminated escape sequence", line, c1) >>)
        ELSE IF At(k1) \in DOMAIN escape_sequences
        THEN Escaped(TRUE, escape_sequences[At(k1)], k1 + 1, c1 + 1, << >>)
        ELSE IF At(k1) = CH.x
        THEN LET run == HexRun(k1 + 1, 0, 0)
                 c2  == c1 + 1 + run.digits
             IN  IF run.digits = 0
                 THEN Escaped(FALSE, 0, run.i, c2,
                        << Msg("Expected hexadecimal digits after '\\x'.",
                               line, c2) >>)
                 ELSE Escaped(TRUE, run.val % (UCHAR_MAX + 1), run.i, c2,
                        IF run.val > UCHAR_MAX
                        THEN << Msg("Hexadecimal escape sequence out of range.",
                                    line, c2) >>
                        ELSE << >>)
        ELSE IF OctalBranch(At(k1))
        THEN LET run == OctalRun(k1, 0, 0)
                 c2  == c1 + run.digits
             IN  IF run.digits = 0
                 THEN Escaped(FALSE, 0, run.i, c2,
                        << Msg("Expected octal digits after '\\'.",
                               line, c2) >>)
                 ELSE Escaped(TRUE, run.val % (UCHAR_MAX + 1), run.i, c2,
                        IF run.val > UCHAR_MAX
                        THEN << Msg("Octal escape sequence out of range.",
                                    line, c2) >>
                        ELSE << >>)
        ELSE Escaped(TRUE, At(k1), k1 + 1, c1 + 1,
               << Msg("Warning: Unrecognized escape sequence", line, c1) >>)

(***************************************************************************)
(* case '\'': the character literal.                                       *)
(***************************************************************************)
(* What the byte after the terminating NUL can hold when the code reads    *)
(* it: the closing quote, or a byte that is not.                           *)
BeyondBytes == { CH.quote, CH.nul }

(* The tail of the case once char_value is set and the cursor is at k, the *)
(* column at c and the byte under the cursor is b.                         *)
(* char_value is the block p of the heap h.                                *)
CharClose(start, start_col, value, p, h, k, c, b, msgs) ==
    IF b # CH.quote
    THEN Fail(free(h, p), k, line, c,
              msgs \o << Msg("Unterminated character constant.", line, c) >>)
    ELSE \E ok \in AllocOutcomes :
            LET r == appendToken(h, store, tokens,
                        Token("TT_CHAR", TRUE, << value >>, start, line,
                              start_col, (k + 1) - start), p, ok, c + 1)
            IN  \/ /\ AppendOk(r, k + 1, c + 1, msgs)
                   /\ status' = IF k + 1 > Len(source) THEN "overrun"
                                 ELSE status
                   /\ UNCHANGED ret
                \/ AppendFailed(r, p, k + 1, c + 1, msgs)

(* What perror writes when an allocation has failed.                       *)
Perror(what) == Msg(what, 0, 0)

LexChar ==
    /\ Lexing
    /\ At(i) = CH.quote
    /\ LET start == i
           start_col == col
           k == i + 1
           c == col + 1
       IN  IF At(k) = CH.backslash
           THEN LET e == handleEscapeSequence(k, c)
                IN  IF ~e.ok
                    THEN Fail(heap, e.i, line, e.col, e.msgs)
                    ELSE \E ok \in AllocOutcomes :
                            IF ~ok  \* malloc(2) of the escape gives NULL
                            THEN Fail(malloc(heap, FALSE), e.i, line, e.col,
                                      e.msgs \o << Perror("malloc") >>)
                            ELSE CharClose(start, start_col, e.value,
                                           Allocated(heap, TRUE),
                                           malloc(heap, TRUE), e.i, e.col,
                                           At(e.i), e.msgs)
           ELSE IF At(k) # CH.quote
           THEN \E ok \in AllocOutcomes :
                   IF ~ok
                   THEN Fail(malloc(heap, FALSE), k, line, c,
                             << Perror("malloc") >>)
                   ELSE IF k < Len(source)
                   THEN CharClose(start, start_col, At(k),
                                  Allocated(heap, TRUE), malloc(heap, TRUE),
                                  k + 1, c + 1, At(k + 1), << >>)
                   ELSE \* source[k] is the NUL: source[k + 1] lies past it
                        \E b \in BeyondBytes :
                           CharClose(start, start_col, CH.nul,
                                     Allocated(heap, TRUE), malloc(heap, TRUE),
                                     k + 1, c + 1, b, << >>)
           ELSE Fail(heap, k, line, c,
                     << Msg("Empty character constnt.", line, c) >>)

(***************************************************************************)
(* case '"': the string literal.                                           *)
(***************************************************************************)
(* strlen(escaped): the bytes of the escape that reach the string value.   *)
EscapedBytes(value) == IF value = 0 THEN << >> ELSE << value >>

Scanned(ok, eof, nomem, k, c, val, msgs, buf, escapes) ==
    [ ok |-> ok, eof |-> eof, nomem |-> nomem, i |-> k, col |-> c,
      value |-> val, msgs |-> msgs, buf |-> buf, escapes |-> escapes ]

(* The while loop of the case, from cursor k and column c with the bytes   *)
(* val decoded so far.  buf: string_value is not NULL; escapes: how many   *)
(* blocks handleEscapeSequence has returned (each is released in the       *)
(* iteration that receives it); budget: how many of the allocation         *)
(* requests still to come succeed before one gives NULL.                   *)
RECURSIVE StringScan(_, _, _, _, _, _, _)
StringScan(k, c, val, msgs, buf, escapes, budget) ==
    IF At(k) # CH.nul /\ At(k) # CH.dquote
    THEN IF At(k) = CH.backslash
         THEN LET e == handleEscapeSequence(k, c)
              IN  IF ~e.ok
                  THEN Scanned(FALSE, FALSE, FALSE, e.i, e.col, val,
                               msgs \o e.msgs, buf, escapes)
                  ELSE IF budget = 0  \* malloc(2) of the escape gives NULL
                  THEN Scanned(FALSE, FALSE, TRUE, e.i, e.col, val,
                               msgs \o e.msgs \o << Perror("malloc") >>,
                               buf, escapes)
                  ELSE IF budget = 1  \* realloc gives NULL
                  THEN Scanned(FALSE, FALSE, TRUE, e.i, e.col, val,
                               msgs \o e.msgs \o << Perror("realloc") >>,
                               buf, escapes + 1)
                  ELSE StringScan(e.i, e.col, val \o EscapedBytes(e.value),
                                  msgs \o e.msgs, TRUE, escapes + 1,
                                  budget - 2)
         ELSE IF budget = 0  \* realloc gives NULL
         THEN Scanned(FALSE, FALSE, TRUE, k, c, val,
                      msgs \o << Perror("realloc") >>, buf, escapes)
         ELSE StringScan(k + 1, c + 1, Append(val, At(k)), msgs, TRUE,
                         escapes, budget - 1)
    ELSE Scanned(TRUE, At(k) = CH.nul, FALSE, k, c, val, msgs, buf, escapes)

(* The budgets a string literal is scanned under: the scan makes fewer     *)
(* than two requests for each byte from the cursor on.                     *)
StringBudgets ==
    IF oom THEN 0..(2 * (Len(source) - i)) ELSE { 2 * (Len(source) - i) }

(* The heap h after a scan: string_value first (live, if it is not NULL),  *)
(* the released blocks of the escapes, and the request that failed.        *)
HeapAfterScan(h, s) ==
    h \o (IF s.buf THEN << "live" >> ELSE << >>)
      \o [ n \in 1..s.escapes |-> "freed" ]
      \o (IF s.nomem THEN << "NULL" >> ELSE << >>)

LexString ==
    /\ Lexing
    /\ At(i) = CH.dquote
    /\ \E budget \in StringBudgets :
        LET start == i
            start_col == col
            s == StringScan(i + 1, col + 1, << >>, << >>, FALSE, 0, budget)
            h == HeapAfterScan(heap, s)
            string_value == IF s.buf THEN Len(heap) + 1 ELSE NULL
            len == (s.i + 1) - start
        IN  IF ~s.ok
            THEN Fail(free(h, string_value), s.i, line, s.col, s.msgs)
            ELSE IF s.eof
            THEN Fail(free(h, string_value), s.i, line, s.col,
                      s.msgs \o << Msg("Unterminated string literal.",
                                       line, s.col) >>)
            ELSE IF s.buf
            THEN Emit(Token("TT_STRING", TRUE, s.value, start, line,
                            start_col, len),
                      string_value, h, s.col + 1, s.i + 1, s.col + 1, s.msgs)
            ELSE \* string_value = calloc(1, 1), taken as it comes
                 \E ok \in AllocOutcomes :
                    Emit(Token("TT_STRING", ok, << >>, start, line,
                               start_col, len),
                         Allocated(h, ok), malloc(h, ok), s.col + 1,
                         s.i + 1, s.col + 1, s.msgs)

(***************************************************************************)
(* default: identifiers and keywords, numbers, unexpected bytes.           *)
(***************************************************************************)
RECURSIVE IdentEnd(_)
IdentEnd(k) ==
    IF isalnum(At(k)) \/ At(k) = CH.underscore THEN IdentEnd(k + 1) ELSE k

LexIdentifier ==
    /\ Lexing
    /\ isalpha(At(i)) \/ At(i) = CH.underscore
    /\ LET start == i
           stop  == IdentEnd(i)
           len   == stop - start
           col1  == col + len
           value == SubSeq(source, start + 1, stop)
           type  == IF value \in keywords THEN "TT_KEYWORD"
                    ELSE "TT_IDENTIFIER"
       IN  \E ok \in AllocOutcomes :
              IF ~ok
              THEN Fail(malloc(heap, FALSE), stop, line, col1,
                        << Msg("Memory allocation failed.", line, col1) >>)
              ELSE Emit(Token(type, TRUE, value, start, line, col1 - len,
                              len),
                        Allocated(heap, TRUE), malloc(heap, TRUE), col1,
                        stop, col1, << >>)

(* The while loop of parse_number: the index where it stops, whether a '.' *)
(* was seen, and whether it stopped at a second '.'.                       *)
RECURSIVE NumberScan(_, _)
NumberScan(k, hasDot) ==
    IF isdigit(At(k)) \/ At(k) = CH.dot
    THEN IF At(k) = CH.dot /\ hasDot
         THEN [ ok |-> FALSE, i |-> k, hasDot |-> hasDot ]
         ELSE NumberScan(k + 1, hasDot \/ At(k) = CH.dot)
    ELSE [ ok |-> TRUE, i |-> k, hasDot |-> hasDot ]

(* What a caller can receive when control runs off the end of tokenize     *)
(* after the block of parse_number, which has no return statement.         *)
NoReturnValues == { "tokens", "NULL", "garbage" }

(* What follows the block of parse_number.                                 *)
AfterNumber ==
    /\ status' = "noreturn"
    /\ ret' \in NoReturnValues

(* goto parse_number, from case '.' before a digit and from default        *)
LexNumber ==
    /\ Lexing
    /\ isdigit(At(i)) \/ (At(i) = CH.dot /\ isdigit(At(i + 1)))
    /\ LET start == i
           n == NumberScan(i, FALSE)
           len == n.i - start
       IN  IF ~n.ok
           THEN Fail(heap, n.i, line, col,
                     << Msg("Malformed float.", line, col) >>)
           ELSE \E okValue, ok \in AllocOutcomes :
                   IF ~okValue
                   THEN Fail(malloc(heap, FALSE), n.i, line, col,
                             << Msg("Memory allocation failed.", line,
                                    col) >>)
                   ELSE LET value == Allocated(heap, TRUE)
                            r == appendToken(malloc(heap, TRUE), store,
                                   tokens,
                                   Token(IF n.hasDot THEN "TT_FLOAT"
                                         ELSE "TT_INT", TRUE,
                                         SubSeq(source, start + 1, n.i),
                                         start, line, col, len),
                                   value, ok, col)
                        IN  \/ AppendOk(r, n.i, col + len, << >>)
                               /\ AfterNumber
                            \/ AppendFailed(r, value, n.i, col, << >>)

LexUnexpected ==
    /\ Lexing
    /\ At(i) \notin {CH.tab, CH.cr, CH.space, CH.lf, CH.slash, CH.dot,
                     CH.quote, CH.dquote}
    /\ At(i) \notin OperatorStart \cup PunctStart
    /\ ~(isalpha(At(i)) \/ At(i) = CH.underscore)
    /\ ~isdigit(At(i))
    /\ Fail(heap, i, line, col, << Msg("Unexpected character", line, col) >>)

(* After the loop: the EOF token and return tokens.                        *)
LexEOF ==
    /\ status = "lexing"
    /\ At(i) = CH.nul
    /\ \E ok \in AllocOutcomes :
          LET r == appendToken(heap, store, tokens,
                               Token("TT_EOF", FALSE, << >>, i, line, col, 0),
                               NULL, ok, col)
          IN  \/ AppendOk(r, i, col, << >>)
                 /\ status' = "done"
                 /\ ret' = "tokens"
              \/ AppendFailed(r, NULL, i, col, << >>)

Next ==
    \/ LexWhitespace
    \/ LexNewline
    \/ LexOperator
    \/ LexPunct
    \/ LexSlash
    \/ LexDot
    \/ LexChar
    \/ LexString
    \/ LexIdentifier
    \/ LexNumber
    \/ LexUnexpected
    \/ LexEOF

Spec == Init /\ [][Next]_vars
SpecOps == InitOps /\ [][Next]_vars

(***************************************************************************)
(* tokenize under an allocator that can fail.  It starts at the head of    *)
(* the source, with the array malloc has given or with NULL, or it stands  *)
(* behind n semicolons it has lexed already, so that the array fills up    *)
(* and appendToken has to grow it.                                         *)
(***************************************************************************)
AtHead(S, ok) ==
    /\ source = S
    /\ i = 0
    /\ line = 1
    /\ col = 1
    /\ tokens = << >>
    /\ status = "lexing"
    /\ ret = "none"
    /\ diag = << >>
    /\ heap = malloc(<< >>, ok)
    /\ store = [ tokens |-> Allocated(<< >>, ok),
                 sTokens |-> InitialSTokens, values |-> << >> ]
    /\ ParserIdle
    /\ CliIdle

AfterSemicolons(n, tail) ==
    /\ source = [ k \in 1..n |-> CH.semicolon ] \o tail
    /\ i = n
    /\ line = 1
    /\ col = n + 1
    /\ tokens = [ k \in 1..n |->
                    Token("TT_SEMICOLON", FALSE, << >>, k - 1, 1, k, 1) ]
    /\ status = "lexing"
    /\ ret = "none"
    /\ diag = << >>
    /\ heap = malloc(<< >>, TRUE)
    /\ store = [ tokens |-> Allocated(<< >>, TRUE),
                 sTokens |-> InitialSTokens,
                 values |-> [ k \in 1..n |-> NULL ] ]
    /\ ParserIdle
    /\ CliIdle

InitAlloc ==
    /\ oom = TRUE
    /\ \E tail \in Strs(Alphabet, MaxAllocLen) :
          \/ \E ok \in BOOLEAN : AtHead(tail, ok)
          \/ AfterSemicolons(InitialSTokens - 1, tail)

SpecAlloc == InitAlloc /\ [][Next]_vars

(***************************************************************************)
(* The driver: main and parseArgs of src/src/cli.c.  A step of parseArgs   *)
(* is an iteration of its loop.                                            *)
(***************************************************************************)
(* The strings parseArgs compares an argument with: -h, --help, -o and     *)
(* --output.                                                               *)
OPT == [ h |-> << 45, 104 >>, help |-> << 45, 45, 104, 101, 108, 112 >>,
         o |-> << 45, 111 >>,
         output |-> << 45, 45, 111, 117, 116, 112, 117, 116 >> ]

tolower(c) == IF c \in 65..90 THEN c + 32 ELSE c

(* argc of main: argv holds the arguments behind argv[0].                  *)
argc == Len(argv) + 1

(* The pointer argv[k] of main; argv[argc] is the null pointer.            *)
ArgPointer(k) ==
    IF k < argc THEN [ is |-> "argv", index |-> k ] ELSE [ is |-> "NULL" ]

(* len >= 3 and the last three bytes are '.', 'h' or 'H', 'c' or 'C'.      *)
IsInFile(name) ==
    /\ Len(name) >= 3
    /\ name[Len(name) - 2] = 46
    /\ tolower(name[Len(name) - 1]) = 104
    /\ tolower(name[Len(name)]) = 99

(* if (argc < 2) { showHelp(argv[0]); return 0; }                          *)
MainUsage ==
    /\ cstatus = "started"
    /\ argc < 2
    /\ cstatus' = "exited"
    /\ exitcode' = 0
    /\ UNCHANGED <<argv, argi, args, cerr, lexvars, pvars>>

(* The call of parseArgs up to its loop.                                   *)
MainParseArgs ==
    /\ cstatus = "started"
    /\ ~(argc < 2)
    /\ cstatus' = "scanning"
    /\ args' = [args EXCEPT !.nInFiles = 0]
    /\ argi' = 1
    /\ UNCHANGED <<argv, exitcode, cerr, lexvars, pvars>>

Scanning == cstatus = "scanning" /\ argi < argc

(* -h or --help: showHelp is set and parseArgs returns.                    *)
ArgHelp ==
    /\ Scanning
    /\ argv[argi] = OPT.h \/ argv[argi] = OPT.help
    /\ args' = [args EXCEPT !.showHelp = [ is |-> "true" ]]
    /\ cstatus' = "returned"
    /\ UNCHANGED <<argv, argi, exitcode, cerr, lexvars, pvars>>

(* -o or --output: the test for a missing value compares argc with i,      *)
(* which is less than argc inside the loop; outFile is argv[++i].          *)
ArgOutput ==
    /\ Scanning
    /\ ~(argv[argi] = OPT.h \/ argv[argi] = OPT.help)
    /\ argv[argi] = OPT.o \/ argv[argi] = OPT.output
    /\ IF argc = argi
       THEN /\ cerr' = Append(cerr, [ msg |-> "Expected argument to",
                                      arg |-> argv[argi] ])
            /\ cstatus' = "exited"
            /\ exitcode' = 1
            /\ UNCHANGED <<argi, args>>
       ELSE /\ args' = [args EXCEPT !.outFile = ArgPointer(argi + 1)]
            /\ argi' = argi + 2
            /\ UNCHANGED <<cstatus, exitcode, cerr>>
    /\ UNCHANGED <<argv, lexvars, pvars>>

(* What the store inFiles[nInFiles++] = argv[i] can do.  The first block   *)
(* has room for one pointer; realloc asks for sizeof(char* ) * nInFiles + 1 *)
(* bytes, the pointers already there and one byte, so every store but the  *)
(* first is behind the block.                                              *)
StoreOutcomes == IF args.nInFiles = 0 THEN { "stored" }
                 ELSE { "stored", "fault" }

(* A name that ends in .hc is appended to inFiles.                         *)
ArgFile ==
    /\ Scanning
    /\ ~(argv[argi] = OPT.h \/ argv[argi] = OPT.help)
    /\ ~(argv[argi] = OPT.o \/ argv[argi] = OPT.output)
    /\ IsInFile(argv[argi])
    /\ \E outcome \in StoreOutcomes :
          IF outcome = "stored"
          THEN /\ args' = [args EXCEPT
                             !.inFiles = IF args.nInFiles = 0
                                         THEN << ArgPointer(argi) >>
                                         ELSE Append(@, ArgPointer(argi)),
                             !.nInFiles = @ + 1]
               /\ argi' = argi + 1
               /\ UNCHANGED cstatus
          ELSE /\ cstatus' = "crashed"
               /\ UNCHANGED <<args, argi>>
    /\ UNCHANGED <<argv, exitcode, cerr, lexvars, pvars>>

(* err: any other argument.                                                *)
ArgUnrecognized ==
    /\ Scanning
    /\ ~(argv[argi] = OPT.h \/ argv[argi] = OPT.help)
    /\ ~(argv[argi] = OPT.o \/ argv[argi] = OPT.output)
    /\ ~IsInFile(argv[argi])
    /\ cerr' = Append(cerr, [ msg |-> "Unrecognized argument",
                              arg |-> argv[argi] ])
    /\ cstatus' = "exited"
    /\ exitcode' = 1
    /\ UNCHANGED <<argv, argi, args, lexvars, pvars>>

(* The loop ends and parseArgs returns args.                               *)
ArgsReturn ==
    /\ cstatus = "scanning"
    /\ ~(argi < argc)
    /\ cstatus' = "returned"
    /\ UNCHANGED <<argv, argi, args, exitcode, cerr, lexvars, pvars>>

NextCli ==
    \/ MainUsage
    \/ MainParseArgs
    \/ ArgHelp
    \/ ArgOutput
    \/ ArgFile
    \/ ArgUnrecognized
    \/ ArgsReturn

(* The words the driver is run on: the four options, names that end in    *)
(* .hc in either case, and words that are neither: -x, a.c, hc, hcc.       *)
ArgumentWords ==
    { OPT.h, OPT.help, OPT.o, OPT.output,
      << 97, 46, 104, 99 >>, << 98, 46, 72, 67 >>, << 46, 104, 99 >>,
      << 45, 120 >>, << 97, 46, 99 >>, << 104, 99 >>, << 104, 99, 99 >> }

InitCli ==
    /\ argv \in Strs(ArgumentWords, MaxArgs)
    /\ argi = 0
    /\ args = [ outFile |-> Indeterminate, inFiles |-> Indeterminate,
                nInFiles |-> 0, showHelp |-> Indeterminate ]
    /\ cstatus = "started"
    /\ exitcode = NoExit
    /\ cerr = << >>
    /\ LexerIdle
    /\ ParserIdle

SpecCli == InitCli /\ [][NextCli]_vars

(***************************************************************************)
(* What the specification says of the input, stated without the lexer.     *)
(***************************************************************************)
Last(seq) == seq[Len(seq)]

NumericTypes == { "TT_INT", "TT_FLOAT" }

(* 1 + the newlines before the byte at index k.                            *)
LineOf(k) == 1 + Cardinality({ j \in 1..k : source[j] = CH.lf })

(* 1 + the bytes between the last newline before index k and index k.      *)
ColOf(k) ==
    LET nl == { j \in 1..k : source[j] = CH.lf }
        p  == IF nl = {} THEN 0 ELSE CHOOSE j \in nl : \A m \in nl : m <= j
    IN  1 + (k - p)

(* The operator and punctuation vocabulary.                                *)
Vocabulary ==
    {
      [ text |-> <<43>>, type |-> "TT_ADD" ],
      [ text |-> <<43, 43>>, type |-> "TT_INC" ],
      [ text |-> <<43, 61>>, type |-> "TT_ADDEQ" ],
      [ text |-> <<45>>, type |-> "TT_SUB" ],
      [ text |-> <<45, 45>>, type |-> "TT_DEC" ],
      [ text |-> <<45, 61>>, type |-> "TT_SUBEQ" ],
      [ text |-> <<45, 62>>, type |-> "TT_ARROW" ],
      [ text |-> <<42>>, type |-> "TT_MUL" ],
      [ text |-> <<42, 61>>, type |-> "TT_MULEQ" ],
      [ text |-> <<47>>, type |-> "TT_DIV" ],
      [ text |-> <<47, 61>>, type |-> "TT_DIVEQ" ],
      [ text |-> <<37>>, type |-> "TT_MOD" ],
      [ text |-> <<37, 61>>, type |-> "TT_MODEQ" ],
      [ text |-> <<60>>, type |-> "TT_LT" ],
      [ text |-> <<60, 61>>, type |-> "TT_LTE" ],
      [ text |-> <<60, 60>>, type |-> "TT_LSH" ],
      [ text |-> <<60, 60, 61>>, type |-> "TT_LSHEQ" ],
      [ text |-> <<62>>, type |-> "TT_GT" ],
      [ text |-> <<62, 61>>, type |-> "TT_GTE" ],
      [ text |-> <<62, 62>>, type |-> "TT_RSH" ],
      [ text |-> <<62, 62, 61>>, type |-> "TT_RSHEQ" ],
      [ text |-> <<94>>, type |-> "TT_BXOR" ],
      [ text |-> <<94, 61>>, type |-> "TT_XOREQ" ],
      [ text |-> <<94, 94>>, type |-> "TT_XOR" ],
      [ text |-> <<38>>, type |-> "TT_BAND" ],
      [ text |-> <<38, 38>>, type |-> "TT_AND" ],
      [ text |-> <<38, 61>>, type |-> "TT_ANDEQ" ],
      [ text |-> <<124>>, type |-> "TT_BOR" ],
      [ text |-> <<124, 124>>, type |-> "TT_OR" ],
      [ text |-> <<124, 61>>, type |-> "TT_OREQ" ],
      [ text |-> <<61>>, type |-> "TT_ASSIGN" ],
      [ text |-> <<61, 61>>, type |-> "TT_EQ" ],
      [ text |-> <<33>>, type |-> "TT_NOT" ],
      [ text |-> <<33, 61>>, type |-> "TT_NEQ" ],
      [ text |-> <<46>>, type |-> "TT_DOT" ],
      [ text |-> <<46, 46, 46>>, type |-> "TT_ELLIPSIS" ],
      [ text |-> <<126>>, type |-> "TT_BNOT" ],
      [ text |-> <<96>>, type |-> "TT_POW" ],
      [ text |-> <<40>>, type |-> "TT_LPAREN" ],
      [ text |-> <<41>>, type |-> "TT_RPAREN" ],
      [ text |-> <<123>>, type |-> "TT_LBRACE" ],
      [ text |-> <<125>>, type |-> "TT_RBRACE" ],
      [ text |-> <<91>>, type |-> "TT_LBRACKET" ],
      [ text |-> <<93>>, type |-> "TT_RBRACKET" ],
      [ text |-> <<59>>, type |-> "TT_SEMICOLON" ],
      [ text |-> <<58>>, type |-> "TT_COLON" ],
      [ text |-> <<44>>, type |-> "TT_COMMA" ]
    }

IsPrefixAt(text, k) == \A j \in 1..Len(text) : At(k + j - 1) = text[j]

MatchesAt(k) == { e \in Vocabulary : IsPrefixAt(e.text, k) }

Longest(entries) ==
    CHOOSE e \in entries : \A o \in entries : Len(o.text) <= Len(e.text)

LongestAt(k) == Longest(MatchesAt(k))

(* An operator starts at k: a vocabulary entry matches there and the bytes *)
(* open neither a comment nor a number.                                    *)
OperatorStartsAt(k) ==
    /\ \E e \in Vocabulary : IsPrefixAt(e.text, k)
    /\ ~(At(k) = CH.slash /\ At(k + 1) \in {CH.slash, CH.star})
    /\ ~(At(k) = CH.dot /\ isdigit(At(k + 1)))

(* The index after the "*/" that closes a block comment whose body starts  *)
(* at k, or -1 when there is none.                                         *)
RECURSIVE BlockClose(_)
BlockClose(k) ==
    IF At(k) = CH.nul THEN -1
    ELSE IF At(k) = CH.star /\ At(k + 1) = CH.slash THEN k + 2
    ELSE BlockClose(k + 1)

RECURSIVE LineEnd(_)
LineEnd(k) == IF At(k) \in {CH.nul, CH.lf} THEN k ELSE LineEnd(k + 1)

(* From index k on the source holds only whitespace, line comments and     *)
(* terminated block comments.                                              *)
RECURSIVE BlankFrom(_)
BlankFrom(k) ==
    IF At(k) = CH.nul THEN TRUE
    ELSE IF At(k) \in {CH.tab, CH.cr, CH.space, CH.lf} THEN BlankFrom(k + 1)
    ELSE IF At(k) = CH.slash /\ At(k + 1) = CH.slash THEN BlankFrom(LineEnd(k))
    ELSE IF At(k) = CH.slash /\ At(k + 1) = CH.star
    THEN BlockClose(k + 2) # -1 /\ BlankFrom(BlockClose(k + 2))
    ELSE FALSE

UnterminatedBlockAt(k) ==
    At(k) = CH.slash /\ At(k + 1) = CH.star /\ BlockClose(k + 2) = -1

(* The closing double quote of a string whose body starts at k is reached  *)
(* before the end of the input; a backslash takes the next byte with it.   *)
RECURSIVE StringCloses(_)
StringCloses(k) ==
    IF At(k) = CH.nul THEN FALSE
    ELSE IF At(k) = CH.dquote THEN TRUE
    ELSE IF At(k) = CH.backslash
    THEN At(k + 1) # CH.nul /\ StringCloses(k + 2)
    ELSE StringCloses(k + 1)

UnterminatedStringAt(k) == At(k) = CH.dquote /\ ~StringCloses(k + 1)

OctalDigits == 48..55

Unrecognized(c) ==
    /\ c # CH.nul
    /\ c \notin DOMAIN escape_sequences
    /\ c # CH.x
    /\ c \notin OctalDigits

RECURSIVE DigitRun(_, _, _, _, _)
DigitRun(k, digits, base, most, acc) ==
    IF At(k) \in digits /\ acc.n < most
    THEN DigitRun(k + 1, digits, base, most,
                  [ n |-> acc.n + 1,
                    val |-> acc.val * base + HexDigit(At(k)) ])
    ELSE acc

HexDigits == (48..57) \cup (65..70) \cup (97..102)

(* The logical character at index k inside a literal: its length in the    *)
(* source and the one byte it stands for.                                  *)
LogicalChar(k) ==
    IF At(k) # CH.backslash
    THEN [ ok |-> At(k) # CH.nul, len |-> 1, byte |-> At(k) ]
    ELSE LET c == At(k + 1)
         IN  IF c = CH.nul THEN [ ok |-> FALSE, len |-> 1, byte |-> 0 ]
             ELSE IF c \in DOMAIN escape_sequences
             THEN [ ok |-> TRUE, len |-> 2, byte |-> escape_sequences[c] ]
             ELSE IF c = CH.x
             THEN LET r == DigitRun(k + 2, HexDigits, 16, 8,
                                    [ n |-> 0, val |-> 0 ])
                  IN  [ ok |-> r.n >= 1, len |-> 2 + r.n,
                        byte |-> r.val % 256 ]
             ELSE IF c \in OctalDigits
             THEN LET r == DigitRun(k + 1, OctalDigits, 8, 3,
                                    [ n |-> 0, val |-> 0 ])
                  IN  [ ok |-> TRUE, len |-> 1 + r.n, byte |-> r.val % 256 ]
             ELSE [ ok |-> TRUE, len |-> 2, byte |-> c ]

(* One byte per logical character from index k up to index stop.           *)
RECURSIVE DecodedBytes(_, _)
DecodedBytes(k, stop) ==
    IF k >= stop THEN << >>
    ELSE << LogicalChar(k).byte >> \o DecodedBytes(k + LogicalChar(k).len, stop)

(* A quote at k, exactly one logical character, and the closing quote.     *)
CharLiteralAt(k) ==
    /\ At(k) = CH.quote
    /\ At(k + 1) # CH.quote
    /\ LogicalChar(k + 1).ok
    /\ At(k + 1 + LogicalChar(k + 1).len) = CH.quote

(***************************************************************************)
(* The claims.                                                             *)
(***************************************************************************)

(* C1: whenever tokenize hands the caller its token array, the array holds *)
(* exactly one EOF token and that token is its last element.               *)
C1_OneEofLast ==
    ret = "tokens" =>
        /\ Len(tokens) >= 1
        /\ Last(tokens).type = "TT_EOF"
        /\ \A k \in 1..(Len(tokens) - 1) : tokens[k].type # "TT_EOF"

(* C2: every token in the array lies inside the source, has line >= 1 and  *)
(* col >= 1, has len >= 1 unless it is EOF, and token indices never        *)
(* decrease along the array.                                               *)
C2_TokenBounds ==
    \A k \in 1..Len(tokens) :
        /\ tokens[k].index + tokens[k].len <= Len(source)
        /\ tokens[k].line >= 1
        /\ tokens[k].col >= 1
        /\ tokens[k].type # "TT_EOF" => tokens[k].len >= 1
        /\ k > 1 => tokens[k - 1].index <= tokens[k].index

(* C3: every token records the line and the column of its first byte, as   *)
(* counted from the newlines of the source.                                *)
C3_TokenPosition ==
    \A k \in 1..Len(tokens) :
        tokens[k].index <= Len(source) =>
            /\ tokens[k].line = LineOf(tokens[k].index)
            /\ tokens[k].col = ColOf(tokens[k].index)

(* C4: maximal munch.  Whenever the cursor is where an operator starts,    *)
(* the step appends exactly one token, the one of the longest vocabulary   *)
(* entry that is a prefix of the remaining input, placed at the cursor,    *)
(* and moves the cursor past it.                                           *)
C4_MaximalMunch ==
    [][ (status = "lexing" /\ OperatorStartsAt(i)) =>
          \E e \in { LongestAt(i) } :
              /\ Len(tokens') = Len(tokens) + 1
              /\ SubSeq(tokens', 1, Len(tokens)) = tokens
              /\ Last(tokens').type = e.type
              /\ Last(tokens').index = i
              /\ Last(tokens').len = Len(e.text)
              /\ i' = i + Len(e.text)
              /\ status' = "lexing" ]_vars

(* C4 witness: "<<=" was lexed to the end as one TT_LSHEQ of three bytes.  *)
C4_Witness ==
    /\ source = << CH.lt, CH.lt, CH.eq >>
    /\ status = "done"
    /\ Len(tokens) = 2
    /\ tokens[1].type = "TT_LSHEQ"
    /\ tokens[1].len = 3

(* C5: a source made only of whitespace, line comments and terminated      *)
(* block comments lexes to a stream that holds the EOF token alone.        *)
C5_BlankLexesToEof ==
    (BlankFrom(0) /\ status # "lexing") =>
        /\ status = "done"
        /\ Len(tokens) = 1
        /\ tokens[1].type = "TT_EOF"

(* C6: when the cursor is at a block comment that has no closing "*/", or  *)
(* at a string literal whose closing quote is not reached before the end   *)
(* of the input, the step makes tokenize return NULL and no token stream.  *)
C6_UnterminatedFails ==
    [][ (status = "lexing" /\
         (UnterminatedBlockAt(i) \/ UnterminatedStringAt(i))) =>
          /\ status' = "failed"
          /\ ret' = "NULL"
          /\ tokens' = << >> ]_vars

(* C6 witness: "/*/" has failed with the block-comment diagnostic.         *)
C6_Witness ==
    /\ source = << CH.slash, CH.star, CH.slash >>
    /\ status = "failed"
    /\ ret = "NULL"
    /\ Len(diag) = 1
    /\ diag[1].msg = "Reached EOF while parsng block comment."

(* C7: a numeric token holds the text of its run verbatim, is TT_FLOAT iff *)
(* the run has a '.', and lexing goes on after it: once tokenize has       *)
(* stopped without a failure the stream ends with the EOF token.           *)
C7_NumberThenContinue ==
    \A k \in 1..Len(tokens) :
        tokens[k].type \in NumericTypes =>
            /\ tokens[k].value =
                 SubSeq(source, tokens[k].index + 1,
                        tokens[k].index + tokens[k].len)
            /\ tokens[k].type = "TT_FLOAT" <=>
                 (\E j \in 1..Len(tokens[k].value) :
                     tokens[k].value[j] = CH.dot)
            /\ status # "lexing" =>
                 (status = "done" /\ Last(tokens).type = "TT_EOF")

(* C8: the value of a string token is one decoded byte per logical         *)
(* character between its quotes, in order.                                 *)
C8_StringValue ==
    \A k \in 1..Len(tokens) :
        tokens[k].type = "TT_STRING" =>
            tokens[k].value =
                DecodedBytes(tokens[k].index + 1,
                             tokens[k].index + tokens[k].len - 1)

(* C9: at a string or character literal that holds the single escape \c    *)
(* with c not a named escape, not x and not an octal digit, the step does  *)
(* not abort: it appends a token whose value is the byte c, writes a       *)
(* warning, and lexing goes on.                                            *)
C9_UnrecognizedEscape ==
    [][ (/\ status = "lexing"
         /\ At(i) \in {CH.dquote, CH.quote}
         /\ At(i + 1) = CH.backslash
         /\ Unrecognized(At(i + 2))
         /\ At(i + 3) = At(i)) =>
          /\ status' = "lexing"
          /\ Len(tokens') = Len(tokens) + 1
          /\ Last(tokens').value = << At(i + 2) >>
          /\ Len(diag') = Len(diag) + 1
          /\ Last(diag').msg = "Warning: Unrecognized escape sequence" ]_vars

(* C10: at a single quote the step appends one TT_CHAR token holding the   *)
(* decoded byte, and lexing goes on, iff exactly one logical character     *)
(* stands between two quotes; otherwise tokenize returns NULL.             *)
C10_CharLiteral ==
    [][ (status = "lexing" /\ At(i) = CH.quote) =>
          IF CharLiteralAt(i)
          THEN /\ status' = "lexing"
               /\ Len(tokens') = Len(tokens) + 1
               /\ Last(tokens').type = "TT_CHAR"
               /\ Last(tokens').value = << LogicalChar(i + 1).byte >>
          ELSE /\ status' = "failed"
               /\ ret' = "NULL" ]_vars


(***************************************************************************)
(* Storage on the fatal paths.                                             *)
(***************************************************************************)
AllReleased == \A b \in DOMAIN heap : heap[b] \in { "freed", "NULL" }

RequestFailed == \E b \in DOMAIN heap : heap[b] = "NULL"

(* C11: once tokenize is over, a failed allocation request has made it     *)
(* return NULL, and whenever it has returned NULL on a fatal condition     *)
(* every block it allocated (the token array, the lexeme payloads, the     *)
(* scratch buffers) has been released exactly once.                        *)
C11_FatalReleasesAll ==
    /\ (status # "lexing" /\ RequestFailed) => status = "failed"
    /\ status = "failed" => (ret = "NULL" /\ AllReleased)

(***************************************************************************)
(* The parser: what the specification says of the tree parse returns.     *)
(* The trees below are written as the specification names them.           *)
(***************************************************************************)
VarAccess(name) == [ type |-> "NT_VARACCESS", name |-> name ]

Literal(token) == [ type |-> LiteralType[token.type], value |-> token ]

BinaryOp(op, lhs, rhs) ==
    [ type |-> "NT_BINOP", lhs |-> lhs, rhs |-> rhs, op |-> op ]

UnaryOp(op, operand) == [ type |-> "NT_UNARYOP", value |-> operand, op |-> op ]

Call(callee, arguments) ==
    [ type |-> "NT_FUNCCALL", function |-> callee, arguments |-> arguments ]

ArrayAccess(base, index) ==
    [ type |-> "NT_ARRAYACCESS", array |-> base, index |-> index ]

MemberAccess(op, object, member) ==
    [ type |-> "NT_ACCESS", object |-> object, op |-> op, member |-> member ]

If(conditions, bodies, else) ==
    [ type |-> "NT_IF", conditions |-> conditions, bodies |-> bodies,
      elseCase |-> else ]

For(init, cond, step, body) ==
    [ type |-> "NT_FOR", initializer |-> init, condition |-> cond,
      increment |-> step, body |-> body ]

Compound(statements) == [ type |-> "NT_COMPOUND", statements |-> statements ]

Empty == [ type |-> "NT_NONE" ]

Absent == [ type |-> "NULL" ]

(* The root for a program of these statements.                             *)
Root(statements) == Compound(statements)

(* The token array parse was called with and the root it returned.         *)
Outcome == [ tokens |-> ctx.tokens, AST |-> AST ]

Parses(toks, statements) == [ tokens |-> toks, AST |-> Root(statements) ]

(* The statements parse appends before the first one that fails.           *)
RECURSIVE TopLevel(_)
TopLevel(c) ==
    LET Rest(statement) ==
            IF statement.hang \/ statement.node = NoNode THEN << >>
            ELSE << statement.node >> \o TopLevel(statement.ctx)
    IN  IF ISCURRENTTOKENTYPE(c, "TT_EOF") THEN << >>
        ELSE Rest(parseStatement(c))

Grouped(op1, op2) ==
    IF LevelOf(op2) > LevelOf(op1)
    THEN BinaryOp(Operator(op1), VarAccess(T.a),
                  BinaryOp(Operator(op2), VarAccess(T.b), VarAccess(T.c)))
    ELSE BinaryOp(Operator(op2),
                  BinaryOp(Operator(op1), VarAccess(T.a), VarAccess(T.b)),
                  VarAccess(T.c))

OperatorPairs == BinaryOperators \X BinaryOperators

DifferentLevels == { p \in OperatorPairs : LevelOf(p[1]) # LevelOf(p[2]) }

SameLevel == { p \in OperatorPairs : LevelOf(p[1]) = LevelOf(p[2]) }

GroupedParses(pairs) ==
    { Parses(TwoOperators(p[1], p[2]), << Grouped(p[1], p[2]) >>) :
        p \in pairs }

PrecedenceStreams == { TwoOperators(p[1], p[2]) : p \in DifferentLevels }

PrecedenceParses == GroupedParses(DifferentLevels)

AssociativityStreams == { TwoOperators(p[1], p[2]) : p \in SameLevel }

AssociativityParses == GroupedParses(SameLevel)

(* C13: for operators op1 and op2 of different levels of the ladder,       *)
(* a op1 b op2 c ; parses to BinaryOp(op1, a, BinaryOp(op2, b, c)) when    *)
(* op2 is of the higher level and to BinaryOp(op2, BinaryOp(op1, a, b), c) *)
(* when op1 is.                                                            *)
C13_PrecedenceLadder ==
    (pstatus = "returned" /\ ctx.tokens \in PrecedenceStreams)
        => Outcome \in PrecedenceParses

(* C14: for operators op1 and op2 of one level, the assignment operators   *)
(* included, a op1 b op2 c ; parses to BinaryOp(op2, BinaryOp(op1, a, b),  *)
(* c).                                                                     *)
C14_LeftFold ==
    (pstatus = "returned" /\ ctx.tokens \in AssociativityStreams)
        => Outcome \in AssociativityParses

AssignmentStreams == { OneOperator(op) : op \in Ladder[1] }

AssignmentParses ==
    { Parses(OneOperator(op),
             << BinaryOp(Operator(op), VarAccess(T.a), VarAccess(T.b)) >>) :
        op \in Ladder[1] }

(* C15: for each of the eleven assignment operators op, a op b ; parses to *)
(* a BinaryOp with operator token op, left child VarAccess a and right     *)
(* child VarAccess b.                                                      *)
C15_AssignmentOperators ==
    (pstatus = "returned" /\ ctx.tokens \in AssignmentStreams)
        => Outcome \in AssignmentParses

PrefixOperators == { T.sub, T.mul }

NegationStreams ==
    { Stream(<< op, T.x, T.semicolon >>) : op \in PrefixOperators }

NegationParses ==
    { Parses(Stream(<< op, T.x, T.semicolon >>),
             << UnaryOp(op, VarAccess(T.x)) >>) : op \in PrefixOperators }

(* C16: a prefix - or * and its operand parse to a UnaryOp holding that    *)
(* operator token and that operand: - x ; parses to the statement          *)
(* UnaryOp(-, VarAccess x), and * x ; likewise.                            *)
C16_PrefixOperators ==
    (pstatus = "returned" /\ ctx.tokens \in NegationStreams)
        => Outcome \in NegationParses

(* What one postfix operator makes of the expression before it.            *)
Wrapped(expression, postfix) ==
    CASE postfix[1] \in { T.dot, T.arrow } ->
            MemberAccess(postfix[1], expression, postfix[2])
      [] postfix[1] = T.lbracket ->
            ArrayAccess(expression, Literal(postfix[2]))
      [] postfix[1] = T.lparen ->
            Call(expression,
                 [ k \in 1..((Len(postfix) - 1) \div 2) |->
                     VarAccess(postfix[2 * k]) ])

(* a with the postfix operators of chain applied from left to right.       *)
RECURSIVE PostfixTree(_, _)
PostfixTree(expression, chain) ==
    IF chain = << >> THEN expression
    ELSE PostfixTree(Wrapped(expression, Head(chain)), Tail(chain))

PostfixParses ==
    { Parses(PostfixStream(chain), << PostfixTree(VarAccess(T.a), chain) >>) :
        chain \in Strs(Postfixes, MaxPostfix) }

(* a.b->c[0](x,y); and the tree the specification gives for it.            *)
ChainExample ==
    Parses(Stream(<< T.a, T.dot, T.b, T.arrow, T.c, T.lbracket, T.zero,
                     T.rbracket, T.lparen, T.x, T.comma, T.y, T.rparen,
                     T.semicolon >>),
           << Call(ArrayAccess(MemberAccess(T.arrow,
                                            MemberAccess(T.dot,
                                                         VarAccess(T.a),
                                                         T.b),
                                            T.c),
                               Literal(T.zero)),
                   << VarAccess(T.x), VarAccess(T.y) >>) >>)

(* C17: each call, index or member access behind a primary expression      *)
(* wraps the expression built so far as its callee, base or object, with   *)
(* the arguments of a call in source order; a.b->c[0](x,y); parses to      *)
(* Call(ArrayAccess(MemberAccess(->, MemberAccess(., VarAccess a, b), c),  *)
(* 0), [VarAccess x, VarAccess y]).                                        *)
C17_PostfixChain ==
    /\ (pstatus = "returned" /\ ctx.tokens \in PostfixStreams)
           => Outcome \in PostfixParses
    /\ (pstatus = "returned" /\ ctx.tokens = ChainExample.tokens)
           => Outcome = ChainExample

(* parse has returned the tree of a.b->c[0](x,y);                          *)
C17_Witness == pstatus = "returned" /\ Outcome = ChainExample

(* What the specification gives for each statement of Bodies.              *)
BodyNode(body) ==
    CASE body = << T.semicolon >> -> Empty
      [] body = << T.lbrace, T.rbrace >> -> Compound(<< >>)
      [] body = << T.lbrace, T.b, T.semicolon, T.rbrace >> ->
            Compound(<< VarAccess(T.b) >>)
      [] OTHER -> VarAccess(body[1])

(* The If node of if (x) body, the else-if clauses and the else.           *)
IfTree(body, cases, else) ==
    If(<< VarAccess(T.x) >>
         \o [ k \in 1..Len(cases) |-> VarAccess(cases[k].condition) ],
       << BodyNode(body) >>
         \o [ k \in 1..Len(cases) |-> BodyNode(cases[k].body) ],
       IF else = << >> THEN Absent ELSE BodyNode(else[1]))

IfParses ==
    { Parses(IfStream(in.body, in.cases, in.else),
             << IfTree(in.body, in.cases, in.else) >>) : in \in IfInputs }

(* if (x) a; else if (y) b; else c;                                        *)
IfExample ==
    [ body |-> << T.a, T.semicolon >>,
      cases |-> << [ condition |-> T.y, body |-> << T.b, T.semicolon >> ] >>,
      else |-> << << T.c, T.semicolon >> >> ]

(* C18: an if with k else-if clauses and an optional else parses to one If *)
(* node whose conditions and bodies both have length k + 1 and are in      *)
(* source order, and whose else branch is there iff an else was written;   *)
(* if (x) a; else if (y) b; else c; gives conditions [x, y], bodies        *)
(* [a, b] and else c.                                                      *)
C18_IfChain ==
    (pstatus = "returned" /\ ctx.tokens \in IfStreams)
        => /\ Outcome \in IfParses
           /\ Len(AST.statements) = 1
           /\ AST.statements[1].type = "NT_IF"
           /\ Len(AST.statements[1].conditions)
                = Len(AST.statements[1].bodies)
           /\ Len(AST.statements[1].conditions) >= 1

(* parse has returned the If node of if (x) a; else if (y) b; else c;      *)
C18_Witness ==
    /\ pstatus = "returned"
    /\ ctx.tokens = IfStream(IfExample.body, IfExample.cases, IfExample.else)
    /\ AST = Root(<< If(<< VarAccess(T.x), VarAccess(T.y) >>,
                        << VarAccess(T.a), VarAccess(T.b) >>,
                        VarAccess(T.c)) >>)

(* What the specification gives for a slot of a for header.                *)
SlotNode(slot) ==
    CASE slot = << >> -> Absent
      [] slot = << T.a >> -> VarAccess(T.a)
      [] slot = << T.a, T.assign, T.zero >> ->
            BinaryOp(T.assign, VarAccess(T.a), Literal(T.zero))

ForParses ==
    { Parses(ForStream(in.init, in.cond, in.step, in.body),
             << For(SlotNode(in.init), SlotNode(in.cond), SlotNode(in.step),
                    BodyNode(in.body)) >>) : in \in ForInputs }

(* C19: each of the three header slots of the For node is null iff the     *)
(* slot is empty in the source and holds the parsed expression otherwise;  *)
(* for (;;) ; gives a For with the three slots null and an Empty body.     *)
C19_ForSlots ==
    (pstatus = "returned" /\ ctx.tokens \in ForStreams)
        => Outcome \in ForParses

(* parse has returned the For node of for (;;) ;                           *)
C19_Witness ==
    /\ pstatus = "returned"
    /\ ctx.tokens = ForStream(<< >>, << >>, << >>, << T.semicolon >>)
    /\ AST = Root(<< For(Absent, Absent, Absent, Empty) >>)

(* The token arrays that open a block and hold no '}'.                     *)
Unclosed ==
    /\ Len(ctx.tokens) >= 1
    /\ ctx.tokens[1] = T.lbrace
    /\ \A k \in DOMAIN ctx.tokens : ctx.tokens[k] # T.rbrace

(* C20: when a '{' has no '}' before the TT_EOF token, the compound        *)
(* statement fails: parse returns, and with no Compound node for the       *)
(* block.                                                                  *)
C20_UnclosedBlockFails ==
    (Unclosed /\ pstatus # "parsing")
        => (pstatus = "returned" /\ AST = Root(<< >>))

(***************************************************************************)
(* Completeness of the returned trees.                                     *)
(***************************************************************************)
(* The children a node cannot do without: the operands of an operation,    *)
(* the callee of a call, the base and the index of an array access, the    *)
(* object of a member access, the conditions and bodies of if and while,   *)
(* the body of for, the statements of a block.                             *)
MandatoryChildren(node) ==
    CASE node.type = "NT_BINOP" -> << node.lhs, node.rhs >>
      [] node.type = "NT_UNARYOP" -> << node.value >>
      [] node.type = "NT_FUNCCALL" -> << node.function >>
      [] node.type = "NT_ARRAYACCESS" -> << node.array, node.index >>
      [] node.type = "NT_ACCESS" -> << node.object >>
      [] node.type = "NT_IF" -> node.conditions \o node.bodies
      [] node.type = "NT_WHILE" -> << node.condition, node.body >>
      [] node.type = "NT_FOR" -> << node.body >>
      [] node.type = "NT_COMPOUND" -> node.statements
      [] OTHER -> << >>

(* The children that may be null: the slots of a for header, the else of   *)
(* an if; and the entries of an argument list.                             *)
OtherChildren(node) ==
    CASE node.type = "NT_FUNCCALL" -> node.arguments
      [] node.type = "NT_IF" -> << node.elseCase >>
      [] node.type = "NT_FOR" ->
            << node.initializer, node.condition, node.increment >>
      [] OTHER -> << >>

(* No node of the tree has a null mandatory child.                         *)
RECURSIVE NoNullChild(_)
NoNullChild(node) ==
    \/ node = Absent
    \/ /\ \A k \in DOMAIN MandatoryChildren(node) :
             /\ MandatoryChildren(node)[k] # Absent
             /\ NoNullChild(MandatoryChildren(node)[k])
       /\ \A k \in DOMAIN OtherChildren(node) :
             NoNullChild(OtherChildren(node)[k])

(* C21: a failure of a sub-production makes the enclosing production       *)
(* fail, so no node of a tree that parse returns has a null mandatory      *)
(* child: no BinaryOp with a null operand, no MemberAccess with a null     *)
(* object, no Compound with a null statement.                              *)
C21_NoNullMandatoryChild ==
    pstatus = "returned" => NoNullChild(AST)

(* Every node of the tree, a node being its own first.                     *)
RECURSIVE NodesOf(_)
NodesOf(node) ==
    IF node = Absent THEN { }
    ELSE { node }
         \cup UNION { NodesOf(MandatoryChildren(node)[k]) :
                         k \in DOMAIN MandatoryChildren(node) }
         \cup UNION { NodesOf(OtherChildren(node)[k]) :
                         k \in DOMAIN OtherChildren(node) }

(* C26: every entry of the argument list of a Call node is an expression   *)
(* node: f() has the empty list, f(e1, ..., en) the n expressions in       *)
(* order, and a list with a missing argument, as f(,), f(a,) or f(,a),     *)
(* never gives a Call with a null entry.                                   *)
C26_CallArgumentsAreExpressions ==
    pstatus = "returned"
        => \A node \in NodesOf(AST) :
              node.type = "NT_FUNCCALL"
                 => \A k \in DOMAIN node.arguments :
                       node.arguments[k] # Absent

(* C23: after parse has returned a root, freeNode on that root releases    *)
(* every node and every array parse allocated, on well-formed input, with  *)
(* a prefix operator too, and when a statement failed part-way: nothing    *)
(* parse allocated is left that the root does not reach.                   *)
C23_FreeNodeReleasesAll ==
    pstatus = "freed" => released = ctx.allocated

(* C30: freeNode on a root parse returned releases only pointers parse     *)
(* allocated and initialised and never reads through a null child, for     *)
(* every kind of node, the Empty node of ';' and the trees of ill-formed   *)
(* input included.                                                         *)
C30_FreeNodeIsSafe ==
    pstatus # "crashed" /\ wild = 0

(* C22: every failure of the parser writes a diagnostic, file:line:col and *)
(* a message with the line and column of the offending token: parse does   *)
(* not stop at a statement that failed without a diagnostic having been    *)
(* written.                                                                *)
C22_FailureWritesDiagnostic ==
    [][ParseBreak => diag' # << >>]_vars

(* C27: parse terminates on every finite token array that ends with its    *)
(* TT_EOF token, ill-formed input such as an unclosed '{' included: it      *)
(* comes to return its root.                                               *)
C27_ParseTerminates == <>(pstatus = "returned")

(* C28: from the priming advance on, current is tokens[index], index is    *)
(* within the array and no token that has been passed is the TT_EOF token: *)
(* advance is not called at TT_EOF, and tokens[index + 1], which the       *)
(* parser reads only at an else and then advances to, lies within the      *)
(* array.                                                                  *)
C28_ContextWithinTokens ==
    pstatus # "idle"
        => /\ ctx.index + 1 \in DOMAIN ctx.tokens
           /\ ctx.current = ctx.tokens[ctx.index + 1]
           /\ \A k \in 1..ctx.index : ctx.tokens[k].type # "TT_EOF"

(* parse has returned at the TT_EOF token of  if (x) a; else b;  having    *)
(* read the token behind the else before it advanced.                      *)
C28_Witness ==
    /\ pstatus = "returned"
    /\ ctx.tokens = IfStream(<< T.a, T.semicolon >>, << >>,
                             << << T.b, T.semicolon >> >>)
    /\ ctx.index = Len(ctx.tokens) - 1
    /\ ctx.current = T.eof

(* C29: tokenize reads no byte of the source behind the terminating NUL:   *)
(* the cursor i never passes the NUL, at the end of the input inside a     *)
(* character literal, a string literal, an escape or a comment as          *)
(* anywhere.                                                               *)
C29_CursorWithinSource ==
    i <= Len(source) /\ status # "overrun"

(* The indices at which the top-level statements of a token array begin,   *)
(* with the index of its TT_EOF token last; the empty sequence when a      *)
(* statement fails or never returns.                                       *)
RECURSIVE Cuts(_)
Cuts(c) ==
    LET Before(rest) == IF rest = << >> THEN << >> ELSE << c.index >> \o rest
        Rest(statement) ==
            IF statement.hang \/ statement.node = NoNode THEN << >>
            ELSE Once(Before, Cuts(statement.ctx))
    IN  IF ISCURRENTTOKENTYPE(c, "TT_EOF") THEN << c.index >>
        ELSE Once(Rest, parseStatement(c))

(* The first n tokens of the array with a TT_EOF token behind them, and    *)
(* the tokens that follow them.                                            *)
Prefix(toks, n) == Stream(SubSeq(toks, 1, n))

Remainder(toks, n) == SubSeq(toks, n + 1, Len(toks))

(* C24: when a token array parses without failure into the statements      *)
(* s1..sn, then for every k in 0..n the statements parsed from the tokens  *)
(* of s1..sk and TT_EOF, followed by the statements parsed from the tokens *)
(* of s(k+1)..sn and TT_EOF, are the statements of the whole parse.        *)
C24_SplitAtStatementBoundary ==
    pstatus = "returned"
        => \A k \in DOMAIN Cuts(Start(ctx.tokens)) :
              \E n \in { Cuts(Start(ctx.tokens))[k] } :
                 AST = Root(TopLevel(Start(Prefix(ctx.tokens, n)))
                              \o TopLevel(Start(Remainder(ctx.tokens, n))))

(* parse has returned three statements, the second an if with its else.    *)
C24_Witness ==
    /\ pstatus = "returned"
    /\ Len(Cuts(Start(ctx.tokens))) = 4
    /\ Len(AST.statements) = 3
    /\ AST.statements[2].type = "NT_IF"
    /\ AST.statements[2].elseCase # Absent

(* The arguments the driver knows, as the specification lists them: -h,    *)
(* --help, -o, --output, and a name that ends in .hc in either case.       *)
OutputOptions == { << 45, 111 >>, << 45, 45, 111, 117, 116, 112, 117, 116 >> }

HelpOptions == { << 45, 104 >>, << 45, 45, 104, 101, 108, 112 >> }

Lowered(word) ==
    [ k \in DOMAIN word |-> IF word[k] \in 65..90 THEN word[k] + 32
                            ELSE word[k] ]

EndsInHC(word) ==
    /\ Len(word) >= 3
    /\ SubSeq(Lowered(word), Len(word) - 2, Len(word)) = << 46, 104, 99 >>

(* The argument parseArgs examines next is one the driver has to abort on: *)
(* an unrecognized one, or -o or --output as the last argument.            *)
Offending ==
    /\ cstatus = "scanning"
    /\ argi <= Len(argv)
    /\ \/ /\ argv[argi] \notin OutputOptions \cup HelpOptions
          /\ ~EndsInHC(argv[argi])
       \/ /\ argv[argi] \in OutputOptions
          /\ argi = Len(argv)

(* C25: the driver aborts with exit status 1 on an unrecognized argument   *)
(* and on -o or --output standing as the last argument, with no value.     *)
C25_DriverAbortsOnBadArguments ==
    [][Offending => (cstatus' = "exited" /\ exitcode' = 1)]_vars

=============================================================================
